---------------------------- MODULE Spec2Model ----------------------------
(***************************************************************************)
(* A model of the request dispatch engine of go-slim/slim: the path        *)
(* segmenter and prefix tree (split, node), the router (router.go), the    *)
(* middleware composer (Compose) and the HTTP entry point (slim.go).       *)
(*                                                                         *)
(* Go strings are modelled as sequences of one-character strings, so that  *)
(* the byte-level scans of the source (split, the pattern scan in Match,   *)
(* strings.Join, url.PathUnescape) are computed the way the code computes  *)
(* them.  Slice indices keep Go's 0-based numbering; s[i] in Go is s[i+1]  *)
(* here.                                                                   *)
(***************************************************************************)
EXTENDS Integers, Sequences, FiniteSets, TLC

VARIABLES
    cfg,        \* RouterConfig of the default router: allowOverwritingRoute, routingTrailingSlash
    tree,       \* routerImpl.tree: the root node of the prefix tree
    routes,     \* routerImpl.routes: the route registry, in registration order
    nextRouteId,\* the package-level route id counter
    allocSize,  \* Slim.contextPathParamAllocSize
    pool,       \* Slim.contextPool: the pooled contexts, each with the capacity and the
                \* length of its path-param slice and the id of its route (0 for nil)
    middleware, \* Slim.middleware: the server-global middleware (Slim.Use)
    routerMiddleware, \* routerImpl.middleware of the default router (Router.Use)
    collectors, \* the route collectors of the default router; collectors[1] is its root collector
    composed,   \* a middleware returned by Compose, with the index variable of its closure
    universe,   \* the patterns, method lists and requests the environment draws its calls from
    routers,    \* Slim.routers: the routers of the virtual hosts, by host pattern
    routerErrorHandler, \* routerImpl.errorHandler of the default router
    slimErrorHandler,   \* Slim.ErrorHandler
    ops,        \* number of Add / Remove / Host calls made so far
    last        \* the last call made and what it returned

vars == <<cfg, tree, routes, nextRouteId, allocSize, pool, middleware, routerMiddleware,
          collectors, composed, universe, routers, routerErrorHandler, slimErrorHandler, ops,
          last>>

---------------------------------------------------------------------------
(* Bounds of the model. *)

\* Add and Remove calls per behaviour.
MaxOps == 3

\* Middlewares per middleware list (Slim.Use, Router.Use, a collector's Use, a route's Use).
MaxMw == 2

\* Middlewares passed to one call of Compose.
MaxLayers == 3

---------------------------------------------------------------------------
(* Strings. *)

pathSeparator == "/"
paramLabel == ":"
anyLabel == "*"

\* s[i:] of Go, i 0-based.
SliceFrom(s, i) == SubSeq(s, i + 1, Len(s))

\* s[i:j] of Go, i and j 0-based.
Slice(s, i, j) == SubSeq(s, i + 1, j)

RECURSIVE Concat(_)
\* The concatenation of a sequence of strings.
Concat(ss) == IF ss = <<>> THEN <<>> ELSE Head(ss) \o Concat(Tail(ss))

RECURSIVE StringsJoin(_, _)
\* strings.Join(elems, sep)
StringsJoin(elems, sep) ==
    IF elems = <<>> THEN <<>>
    ELSE IF Len(elems) = 1 THEN elems[1]
    ELSE elems[1] \o sep \o StringsJoin(Tail(elems), sep)

\* The order of the method names under Go's string comparison (byte-wise):
\* '*' (0x2A) < 'G' (0x47) < 'H' (0x48) < 'P' (0x50).
MethodOrder == <<"*", "GET", "HEAD", "POST">>

MethodRank(m) == CHOOSE i \in 1..Len(MethodOrder) : MethodOrder[i] = m

\* endpoints.Less
Less(e1, e2) == MethodRank(e1.method) < MethodRank(e2.method)

---------------------------------------------------------------------------
(* split *)

RECURSIVE SplitLoop(_, _, _, _)
\* The scan of split: i is the loop index, start the index of the last
\* separator seen (-1 before the first).
SplitLoop(s, i, start, segments) ==
    IF i >= Len(s) THEN [segments |-> segments, start |-> start]
    ELSE IF s[i + 1] # pathSeparator THEN SplitLoop(s, i + 1, start, segments)
    ELSE IF start = -1 THEN SplitLoop(s, i + 1, i, segments)
    ELSE IF start + 1 < i
         THEN SplitLoop(s, i + 1, i, Append(segments, Slice(s, start, i)))
         ELSE SplitLoop(s, i + 1, i, segments)

\* The end of split, the scan of s having ended as r: the last segment is
\* added, unless s ends with the separator.
splitEnd(s, r) ==
    IF r.start + 1 = Len(s) THEN [segments |-> r.segments, trailing |-> TRUE]
    ELSE IF r.start > -1 /\ r.start < Len(s) - 1
         THEN [segments |-> Append(r.segments, SliceFrom(s, r.start)), trailing |-> FALSE]
         ELSE [segments |-> r.segments, trailing |-> FALSE]

\* The start of split: an empty s becomes "/", and an s that does not
\* start with the separator gets one in front.
splitStart(s) ==
    IF s = <<>> THEN <<pathSeparator>>
    ELSE IF s[1] # pathSeparator THEN <<pathSeparator>> \o s
    ELSE s

\* split(s): the segments of s, each with its leading '/', and whether s
\* ends with '/'.
split(s) == splitEnd(splitStart(s), SplitLoop(splitStart(s), 0, -1, <<>>))

---------------------------------------------------------------------------
(* The prefix tree. *)

\* A nil *node.
NilNode == [typ |-> "nil"]

IsNil(n) == n.typ = "nil"

\* A nil *leaf.
NoLeaf == [present |-> FALSE, endpoints |-> <<>>, paramsCount |-> 0]

\* &node{typ: typ, segment: segment}
NewNode(typ, segment) ==
    [typ |-> typ, segment |-> segment, leaf |-> NoLeaf, leafCount |-> 0,
     staticChildren |-> <<>>, paramChild |-> NilNode, anyChild |-> NilNode]

\* The index (1-based) of the first static child of n with the segment, 0 if none.
StaticIndex(n, segment) ==
    LET hits == {i \in 1..Len(n.staticChildren) : n.staticChildren[i].segment = segment}
    IN  IF hits = {} THEN 0 ELSE CHOOSE i \in hits : \A j \in hits : i <= j

\* The class of a segment: by its second byte.
SegmentKind(segment) ==
    IF segment[2] = paramLabel THEN "param"
    ELSE IF segment[2] = anyLabel THEN "any"
    ELSE "static"

\* The child of n that insert goes down to for the segment: the child
\* there is, or a new node.
insertChild(n, segment) ==
    CASE SegmentKind(segment) = "param" ->
            IF IsNil(n.paramChild) THEN NewNode("param", <<>>) ELSE n.paramChild
      [] SegmentKind(segment) = "any" ->
            IF IsNil(n.anyChild) THEN NewNode("any", <<>>) ELSE n.anyChild
      [] OTHER ->
            IF StaticIndex(n, segment) = 0 THEN NewNode("static", segment)
            ELSE n.staticChildren[StaticIndex(n, segment)]

\* *params after insert has seen the segment: the name of a parameter or
\* of a wildcard is appended, unless it is a parameter without a name.
insertParams(params, segment) ==
    IF SegmentKind(segment) = "static" THEN params
    ELSE IF SegmentKind(segment) = "param" /\ SliceFrom(segment, 2) = <<>> THEN params
    ELSE Append(params, SliceFrom(segment, 2))

\* n after the insertion below it returned r: the child is linked, and the
\* leaves below n are one more if a leaf was created.
insertLink(n, segment, r) ==
    [node |-> [(CASE SegmentKind(segment) = "param" -> [n EXCEPT !.paramChild = r.node]
                  [] SegmentKind(segment) = "any" -> [n EXCEPT !.anyChild = r.node]
                  [] OTHER ->
                        IF StaticIndex(n, segment) = 0
                        THEN [n EXCEPT !.staticChildren = Append(@, r.node)]
                        ELSE [n EXCEPT !.staticChildren[StaticIndex(n, segment)] = r.node])
               EXCEPT !.leafCount = IF r.ok THEN @ + 1 ELSE @],
     params |-> r.params, ok |-> r.ok]

RECURSIVE insert(_, _, _, _)
\* node.insert: the node after the insertion, the parameter names collected
\* so far, and whether a leaf was created.
insert(n, segments, params, depth) ==
    IF depth = Len(segments) THEN
        IF ~n.leaf.present
        THEN [node |-> [n EXCEPT !.leaf = [present |-> TRUE, endpoints |-> <<>>,
                                           paramsCount |-> Len(params)],
                                 !.leafCount = @ + 1],
              params |-> params, ok |-> TRUE]
        ELSE [node |-> n, params |-> params, ok |-> FALSE]
    ELSE insertLink(n, segments[depth + 1],
                    insert(insertChild(n, segments[depth + 1]), segments,
                           insertParams(params, segments[depth + 1]), depth + 1))

\* The result of a match that found nothing.
NoMatch == [node |-> NilNode, via |-> <<>>]

RECURSIVE match(_, _, _, _)
RECURSIVE matchStatic(_, _, _, _, _)
\* The loop of node.match over the static children, from child i (1-based).
matchStatic(n, segments, depth, via, i) ==
    IF i > Len(n.staticChildren) THEN NoMatch
    ELSE IF n.staticChildren[i].segment = segments[depth + 1]
         THEN LET result == match(n.staticChildren[i], segments, depth + 1,
                                  Append(via, <<"static", i>>))
              IN  IF ~IsNil(result.node) THEN result
                  ELSE matchStatic(n, segments, depth, via, i + 1)
         ELSE matchStatic(n, segments, depth, via, i + 1)

\* node.match with a slip: the param child is tried before the static
\* children.
matchParamFirst(n, segments, depth, via) ==
    IF Len(segments) = depth THEN
        IF ~n.leaf.present THEN NoMatch ELSE [node |-> n, via |-> via]
    ELSE
        LET pa == IF IsNil(n.paramChild) THEN NoMatch
                  ELSE match(n.paramChild, segments, depth + 1, Append(via, <<"param", 0>>))
            st == matchStatic(n, segments, depth, via, 1)
        IN  IF ~IsNil(pa.node) THEN pa
            ELSE IF ~IsNil(st.node) THEN st
            ELSE IF IsNil(n.anyChild) THEN NoMatch
            ELSE [node |-> n.anyChild, via |-> Append(via, <<"any", 0>>)]

\* node.match: the node found (NilNode if none) and, as the identity of
\* that node, the children followed from the root to reach it.
match(n, segments, depth, via) ==
    IF Len(segments) = depth THEN
        IF ~n.leaf.present THEN NoMatch ELSE [node |-> n, via |-> via]
    ELSE
        LET st == matchStatic(n, segments, depth, via, 1)
            pa == IF IsNil(n.paramChild) THEN NoMatch
                  ELSE match(n.paramChild, segments, depth + 1, Append(via, <<"param", 0>>))
        IN  IF ~IsNil(st.node) THEN st
            ELSE IF ~IsNil(pa.node) THEN pa
            ELSE IF IsNil(n.anyChild) THEN NoMatch
            ELSE [node |-> n.anyChild, via |-> Append(via, <<"any", 0>>)]

\* slices.Delete(s, i, j), i and j 0-based: it panics unless 0 <= i <= j <= len(s).
SlicesDelete(s, i, j) ==
    IF ~(0 <= i /\ i <= j /\ j <= Len(s)) THEN [panic |-> TRUE, s |-> s]
    ELSE [panic |-> FALSE, s |-> Slice(s, 0, i) \o SliceFrom(s, j)]

\* The index (0-based) of the first endpoint that the inner loop of
\* node.remove selects for the method, -1 if none.
RemoveIndex(endpoints, method, trailingSlash, routingTrailingSlash) ==
    LET hits == {i \in 1..Len(endpoints) :
                    /\ endpoints[i].method = method
                    /\ (routingTrailingSlash \/ endpoints[i].trailingSlash = trailingSlash)}
    IN  IF hits = {} THEN -1 ELSE (CHOOSE i \in hits : \A j \in hits : i <= j) - 1

RECURSIVE removeMethods(_, _, _, _, _, _)
\* One turn of the loop of node.remove over the methods, for method k, i
\* being the index of the endpoint selected for it.
removeMethod(endpoints, methods, k, trailingSlash, routingTrailingSlash, rids, i) ==
    IF i = -1
    THEN removeMethods(endpoints, methods, k + 1, trailingSlash, routingTrailingSlash, rids)
    ELSE IF SlicesDelete(endpoints, i, 1).panic
    THEN [endpoints |-> endpoints, routes |-> rids, panic |-> TRUE]
    ELSE removeMethods(SlicesDelete(endpoints, i, 1).s, methods, k + 1, trailingSlash,
                       routingTrailingSlash, Append(rids, endpoints[i + 1].routeId))

\* The loop of node.remove over the methods, from method k (1-based): the
\* endpoints left, the route ids collected, and whether slices.Delete
\* panicked.
removeMethods(endpoints, methods, k, trailingSlash, routingTrailingSlash, rids) ==
    IF k > Len(methods) THEN [endpoints |-> endpoints, routes |-> rids, panic |-> FALSE]
    ELSE removeMethod(endpoints, methods, k, trailingSlash, routingTrailingSlash, rids,
                      RemoveIndex(endpoints, methods[k], trailingSlash, routingTrailingSlash))

\* The deferred function of node.remove: it runs when the call returns and
\* when it panics, with the value ok has then.
removeDeferred(n, ok) ==
    IF ~ok THEN n
    ELSE IF n.leafCount - 1 <= 0
         THEN [n EXCEPT !.leafCount = @ - 1, !.staticChildren = <<>>,
                        !.paramChild = NilNode, !.anyChild = NilNode]
         ELSE [n EXCEPT !.leafCount = @ - 1]

\* A return of node.remove without routes and with ok false, or its panic.
removeNone(n, panic) == [node |-> n, routes |-> <<>>, ok |-> FALSE, panic |-> panic]

\* The end of the branch of node.remove for a non-empty method list,
\* the loop over the methods having ended as r.
removedAtLeaf(n, r) ==
    IF r.panic THEN removeNone([n EXCEPT !.leaf.endpoints = r.endpoints], TRUE)
    ELSE [node |-> IF Len(r.endpoints) = 0 THEN [n EXCEPT !.leaf = NoLeaf]
                   ELSE [n EXCEPT !.leaf.endpoints = r.endpoints],
          routes |-> r.routes, ok |-> Len(r.routes) > 0, panic |-> FALSE]

\* The branch of node.remove at the end of the segments.
removeAtLeaf(n, methods, trailingSlash, routingTrailingSlash) ==
    IF ~n.leaf.present THEN removeNone(n, FALSE)
    ELSE IF Len(methods) > 0
    THEN removedAtLeaf(n, removeMethods(n.leaf.endpoints, methods, 1, trailingSlash,
                                        routingTrailingSlash, <<>>))
    ELSE [node |-> [n EXCEPT !.leaf = NoLeaf],
          routes |-> [i \in 1..Len(n.leaf.endpoints) |-> n.leaf.endpoints[i].routeId],
          ok |-> TRUE, panic |-> FALSE]

\* The param branch of node.remove, the call on the param child having
\* ended as r.
removedParam(n, r) ==
    IF r.panic THEN removeNone([n EXCEPT !.paramChild = r.node], TRUE)
    ELSE [node |-> [n EXCEPT !.paramChild = IF n.leafCount <= 0 THEN NilNode ELSE r.node],
          routes |-> r.routes, ok |-> r.ok, panic |-> FALSE]

\* The wildcard branch of node.remove, the call on the wildcard child
\* having ended as r.
removedAny(n, r) ==
    IF r.panic THEN removeNone([n EXCEPT !.anyChild = r.node], TRUE)
    ELSE [node |-> [n EXCEPT !.anyChild = IF r.node.leafCount <= 0 THEN NilNode ELSE r.node],
          routes |-> r.routes, ok |-> r.ok, panic |-> FALSE]

\* The default branch of node.remove, the call on static child si
\* (1-based) having ended as r.
removedStatic(n, si, r) ==
    IF r.panic \/ ~r.ok THEN removeNone([n EXCEPT !.staticChildren[si] = r.node], r.panic)
    ELSE IF r.node.leafCount > 0
    THEN [node |-> [n EXCEPT !.staticChildren[si] = r.node], routes |-> r.routes,
          ok |-> TRUE, panic |-> FALSE]
    ELSE IF SlicesDelete(n.staticChildren, si - 1, 1).panic
    THEN [node |-> [n EXCEPT !.staticChildren[si] = r.node], routes |-> r.routes,
          ok |-> TRUE, panic |-> TRUE]
    ELSE [node |-> [n EXCEPT !.staticChildren =
                        SlicesDelete([n.staticChildren EXCEPT ![si] = r.node], si - 1, 1).s],
          routes |-> r.routes, ok |-> TRUE, panic |-> FALSE]

\* The return of node.remove: the deferred function runs on the node.
removeReturn(body) == [body EXCEPT !.node = removeDeferred(body.node, body.ok)]

RECURSIVE remove(_, _, _, _, _, _)
\* node.remove: the node after the call, the ids of the routes whose
\* endpoints were removed, whether an endpoint was removed, and whether
\* the call panicked.
remove(n, methods, trailingSlash, routingTrailingSlash, segments, depth) ==
    removeReturn(
        IF Len(segments) = depth
        THEN removeAtLeaf(n, methods, trailingSlash, routingTrailingSlash)
        ELSE CASE SegmentKind(segments[depth + 1]) = "param" ->
                    IF IsNil(n.paramChild) THEN removeNone(n, FALSE)
                    ELSE removedParam(n, remove(n.paramChild, methods, trailingSlash,
                                                routingTrailingSlash, segments, depth + 1))
               [] SegmentKind(segments[depth + 1]) = "any" ->
                    IF IsNil(n.anyChild) THEN removeNone(n, FALSE)
                    ELSE removedAny(n, remove(n.anyChild, methods, trailingSlash,
                                              routingTrailingSlash, segments, depth + 1))
               [] OTHER ->
                    IF StaticIndex(n, segments[depth + 1]) = 0 THEN removeNone(n, FALSE)
                    ELSE removedStatic(n, StaticIndex(n, segments[depth + 1]),
                                       remove(n.staticChildren[StaticIndex(n, segments[depth + 1])],
                                              methods, trailingSlash, routingTrailingSlash,
                                              segments, depth + 1)))

---------------------------------------------------------------------------
(* url.PathUnescape *)

\* The hexadecimal digits among the characters of the model's strings.
HexDigits == {"1", "4", "a", "b", "c", "d"}

\* ishex
ishex(c) == c \in HexDigits

\* unhex
unhex(c) ==
    CASE c = "1" -> 1 [] c = "4" -> 4 [] c = "a" -> 10 [] c = "b" -> 11
      [] c = "c" -> 12 [] c = "d" -> 13

\* The one-character string of a byte: its letter, or its code for a byte
\* that is no letter.
ByteChar(b) ==
    CASE b = 17 -> "0x11"
      [] b = 20 -> "0x14"
      [] b = 26 -> "0x1A"
      [] b = 27 -> "0x1B"
      [] b = 28 -> "0x1C"
      [] b = 29 -> "0x1D"
      [] b = 65 -> "A"
      [] b = 68 -> "D"
      [] b = 74 -> "J"
      [] b = 75 -> "K"
      [] b = 76 -> "L"
      [] b = 77 -> "M"
      [] b = 161 -> "0xA1"
      [] b = 164 -> "0xA4"
      [] b = 170 -> "0xAA"
      [] b = 171 -> "0xAB"
      [] b = 172 -> "0xAC"
      [] b = 173 -> "0xAD"
      [] b = 177 -> "0xB1"
      [] b = 180 -> "0xB4"
      [] b = 186 -> "0xBA"
      [] b = 187 -> "0xBB"
      [] b = 188 -> "0xBC"
      [] b = 189 -> "0xBD"
      [] b = 193 -> "0xC1"
      [] b = 196 -> "0xC4"
      [] b = 202 -> "0xCA"
      [] b = 203 -> "0xCB"
      [] b = 204 -> "0xCC"
      [] b = 205 -> "0xCD"
      [] b = 209 -> "0xD1"
      [] b = 212 -> "0xD4"
      [] b = 218 -> "0xDA"
      [] b = 219 -> "0xDB"
      [] b = 220 -> "0xDC"
      [] b = 221 -> "0xDD"

RECURSIVE unescapeValid(_, _)
\* The first pass of unescape: every '%' from index i (0-based) on is
\* followed by two hexadecimal digits.
unescapeValid(s, i) ==
    IF i >= Len(s) THEN TRUE
    ELSE IF s[i + 1] = "%"
         THEN /\ i + 2 < Len(s)
              /\ ishex(s[i + 2])
              /\ ishex(s[i + 3])
              /\ unescapeValid(s, i + 3)
         ELSE unescapeValid(s, i + 1)

RECURSIVE unescapeDecode(_, _)
\* The second pass of unescape.
unescapeDecode(s, i) ==
    IF i >= Len(s) THEN <<>>
    ELSE IF s[i + 1] = "%"
         THEN <<ByteChar(16 * unhex(s[i + 2]) + unhex(s[i + 3]))>> \o unescapeDecode(s, i + 3)
         ELSE <<s[i + 1]>> \o unescapeDecode(s, i + 1)

\* url.PathUnescape(s): the decoded string, or an error.
PathUnescape(s) ==
    IF unescapeValid(s, 0) THEN [err |-> FALSE, s |-> unescapeDecode(s, 0)]
    ELSE [err |-> TRUE, s |-> <<>>]

---------------------------------------------------------------------------
(* The router: Add, Remove, Match. *)

RECURSIVE leafAt(_, _, _)
\* tail.leaf for the tail that insert returned: the leaf of the node that
\* the segments lead to.
leafAt(n, segments, depth) ==
    IF depth = Len(segments) THEN n.leaf
    ELSE LET kind == SegmentKind(segments[depth + 1])
         IN  CASE kind = "param" -> leafAt(n.paramChild, segments, depth + 1)
               [] kind = "any" -> leafAt(n.anyChild, segments, depth + 1)
               [] OTHER -> leafAt(n.staticChildren[StaticIndex(n, segments[depth + 1])],
                                  segments, depth + 1)

RECURSIVE withLeafAt(_, _, _, _)
\* The tree after an assignment to tail.leaf.endpoints through the pointer
\* that insert returned.
withLeafAt(n, segments, depth, leaf) ==
    IF depth = Len(segments) THEN [n EXCEPT !.leaf = leaf]
    ELSE LET kind == SegmentKind(segments[depth + 1])
             si == StaticIndex(n, segments[depth + 1])
         IN  CASE kind = "param" ->
                    [n EXCEPT !.paramChild = withLeafAt(@, segments, depth + 1, leaf)]
               [] kind = "any" ->
                    [n EXCEPT !.anyChild = withLeafAt(@, segments, depth + 1, leaf)]
               [] OTHER ->
                    [n EXCEPT !.staticChildren[si] = withLeafAt(@, segments, depth + 1, leaf)]

\* leaf.endpoint(method): the index (1-based) of the first endpoint of the
\* method, 0 if there is none.
endpointIndex(endpoints, method) ==
    LET hits == {i \in 1..Len(endpoints) : endpoints[i].method = method}
    IN  IF hits = {} THEN 0 ELSE CHOOSE i \in hits : \A j \in hits : i <= j

\* slices.DeleteFunc(r.routes, func(route) bool { return route.id == id })
DeleteRoute(rs, id) == SelectSeq(rs, LAMBDA r : r.id # id)

RECURSIVE addMethods(_, _, _, _, _, _, _)
\* One turn of that loop with a slip: an endpoint that exists is overwritten
\* whether overwriting is allowed or not.
addMethodOverwriting(endpoints, rs, methods, k, route, trailingSlash, allowOverwritingRoute, e) ==
    IF e # 0
    THEN addMethods([endpoints EXCEPT ![e].trailingSlash = trailingSlash,
                                      ![e].routeId = route.id],
                    DeleteRoute(rs, endpoints[e].routeId),
                    methods, k + 1, route, trailingSlash, allowOverwritingRoute)
    ELSE addMethods(Append(endpoints, [method |-> methods[k], pattern |-> route.pattern,
                                       trailingSlash |-> trailingSlash,
                                       routeId |-> route.id]),
                    rs, methods, k + 1, route, trailingSlash, allowOverwritingRoute)

\* One turn of that loop with a slip: the route of an overwritten endpoint
\* stays in the registry.
addMethodKeepingRoute(endpoints, rs, methods, k, route, trailingSlash, allowOverwritingRoute, e) ==
    IF e # 0
    THEN IF ~allowOverwritingRoute
         THEN [endpoints |-> endpoints, routes |-> rs, panic |-> TRUE]
         ELSE addMethods([endpoints EXCEPT ![e].trailingSlash = trailingSlash,
                                           ![e].routeId = route.id],
                         rs, methods, k + 1, route, trailingSlash, allowOverwritingRoute)
    ELSE addMethods(Append(endpoints, [method |-> methods[k], pattern |-> route.pattern,
                                       trailingSlash |-> trailingSlash,
                                       routeId |-> route.id]),
                    rs, methods, k + 1, route, trailingSlash, allowOverwritingRoute)

\* One turn of the loop of routerImpl.Add over the methods, for method k,
\* e being the index of the leaf's endpoint of that method (0 if none).
addMethod(endpoints, rs, methods, k, route, trailingSlash, allowOverwritingRoute, e) ==
    IF e # 0
    THEN IF ~allowOverwritingRoute
         THEN [endpoints |-> endpoints, routes |-> rs, panic |-> TRUE]
         ELSE addMethods([endpoints EXCEPT ![e].trailingSlash = trailingSlash,
                                           ![e].routeId = route.id],
                         DeleteRoute(rs, endpoints[e].routeId),
                         methods, k + 1, route, trailingSlash, allowOverwritingRoute)
    ELSE addMethods(Append(endpoints, [method |-> methods[k], pattern |-> route.pattern,
                                       trailingSlash |-> trailingSlash,
                                       routeId |-> route.id]),
                    rs, methods, k + 1, route, trailingSlash, allowOverwritingRoute)

\* The loop of routerImpl.Add over the methods, from method k (1-based):
\* the endpoints of the leaf and the registry after it, and whether it
\* panicked on a duplicate.
addMethods(endpoints, rs, methods, k, route, trailingSlash, allowOverwritingRoute) ==
    IF k > Len(methods) THEN [endpoints |-> endpoints, routes |-> rs, panic |-> FALSE]
    ELSE addMethod(endpoints, rs, methods, k, route, trailingSlash, allowOverwritingRoute,
                   endpointIndex(endpoints, methods[k]))

RECURSIVE SortEndpoints(_)
\* sort.Sort(tail.leaf.endpoints): by method.  (The methods of a leaf are
\* distinct, so that the order is the same for every sorting algorithm.)
SortEndpoints(es) ==
    IF es = <<>> THEN <<>>
    ELSE LET m == CHOOSE i \in 1..Len(es) : \A j \in 1..Len(es) : ~Less(es[j], es[i])
         IN  <<es[m]>> \o SortEndpoints(SubSeq(es, 1, m - 1) \o SubSeq(es, m + 1, Len(es)))

\* The end of routerImpl.Add, the loop over the methods having ended as r:
\* the endpoints are sorted and the route is appended to the registry,
\* unless the loop panicked.
addReturn(alloc, segments, t, leaf, route, r) ==
    IF r.panic
    THEN [tree |-> withLeafAt(t, segments, 0, [leaf EXCEPT !.endpoints = r.endpoints]),
          routes |-> r.routes, nextRouteId |-> route.id, allocSize |-> alloc,
          panic |-> TRUE, route |-> route]
    ELSE [tree |-> withLeafAt(t, segments, 0,
                              [leaf EXCEPT !.endpoints = SortEndpoints(r.endpoints)]),
          routes |-> Append(r.routes, route), nextRouteId |-> route.id,
          allocSize |-> IF alloc < leaf.paramsCount THEN leaf.paramsCount ELSE alloc,
          panic |-> FALSE, route |-> route]

\* routerImpl.Add from the creation of the route on, sp being the split
\* pattern and ins what insert returned.
addRoute(rs, alloc, c, sp, ins, route) ==
    addReturn(alloc, sp.segments, ins.node, leafAt(ins.node, sp.segments, 0), route,
              addMethods(leafAt(ins.node, sp.segments, 0).endpoints, rs, route.methods, 1,
                         route, sp.trailing, c.allowOverwritingRoute))

\* routerImpl.Add after split and insert, the route id counter being id.
addInserted(rs, id, alloc, c, methods, collector, mw, handler, sp, ins) ==
    addRoute(rs, alloc, c, sp, ins,
             [id |-> id + 1, pattern |-> Concat(sp.segments), methods |-> methods,
              params |-> ins.params, collector |-> collector, middleware |-> mw,
              handler |-> handler, name |-> handler.id])

\* routerImpl.Add, called by routeCollectorImpl.Some, which sets the
\* route's collector: the tree, the registry, the id counter and the
\* context allocation size after the call, and whether it panicked.
Add(t, rs, id, alloc, c, methods, pattern, collector, mw, handler) ==
    addInserted(rs, id, alloc, c, methods, collector, mw, handler, split(pattern),
                insert(t, split(pattern).segments, <<>>, 0))

RECURSIVE removeRoutes(_, _, _)
\* The loop of routerImpl.Remove over the route ids that node.remove
\* returned, from id k (1-based): routeImpl.Remove for each, until one is
\* not in the registry.
removeRoutes(rs, rids, k) ==
    IF k > Len(rids) THEN [routes |-> rs, err |-> FALSE]
    ELSE IF \A i \in 1..Len(rs) : rs[i].id # rids[k]
         THEN [routes |-> rs, err |-> TRUE]
         ELSE removeRoutes(DeleteRoute(rs, rids[k]), rids, k + 1)

\* The end of routerImpl.Remove, node.remove having ended as r.
removeReturned(rs, r) ==
    IF r.panic THEN [tree |-> r.node, routes |-> rs, err |-> FALSE, panic |-> TRUE,
                     removed |-> <<>>]
    ELSE IF ~r.ok THEN [tree |-> r.node, routes |-> rs, err |-> FALSE, panic |-> FALSE,
                        removed |-> <<>>]
    ELSE [tree |-> r.node, routes |-> removeRoutes(rs, r.routes, 1).routes,
          err |-> removeRoutes(rs, r.routes, 1).err, panic |-> FALSE, removed |-> r.routes]

\* routerImpl.Remove: the tree and the registry after the call, the error
\* it returned, and whether it panicked.
Remove(t, rs, c, methods, pattern) ==
    removeReturned(rs, remove(t, methods, split(pattern).trailing, c.routingTrailingSlash,
                              split(pattern).segments, 0))

\* leaf.match(method): the methods of the leaf's endpoints, and the index
\* (1-based) of the last endpoint of the method, 0 if there is none.
leafMatch(leaf, method) ==
    LET hits == {i \in 1..Len(leaf.endpoints) : leaf.endpoints[i].method = method}
    IN  [ms |-> [i \in 1..Len(leaf.endpoints) |-> leaf.endpoints[i].method],
         ep |-> IF hits = {} THEN 0 ELSE CHOOSE i \in hits : \A j \in hits : j <= i]

\* A zero PathParam.
NoParam == [Name |-> <<>>, Value |-> <<>>]

\* The index j >= i (0-based) of the first separator of pattern at or
\* after i, the length of pattern if there is none.
NextSeparator(pattern, i) ==
    LET js == {j \in i..(Len(pattern) - 1) : pattern[j + 1] = pathSeparator}
    IN  IF js = {} THEN Len(pattern) ELSE CHOOSE j \in js : \A k \in js : j <= k

\* value, err := url.PathUnescape(value), the value staying as it is on an
\* error.
unescaped(value) == IF PathUnescape(value).err THEN value ELSE PathUnescape(value).s

\* The key of the parameter whose label is byte i (0-based) of pattern and
\* whose name ends before byte j.
paramKey(pattern, i, j) ==
    IF pattern[i + 1] = anyLabel /\ Slice(pattern, i + 1, j) = <<>> THEN <<anyLabel>>
    ELSE Slice(pattern, i + 1, j)

\* The value of the parameter whose label is byte i (0-based) of pattern,
\* before it is unescaped.
paramValue(pattern, i, valueIndex, segments, tailingSlash) ==
    IF pattern[i + 1] = anyLabel
    THEN SliceFrom(StringsJoin(SliceFrom(segments, valueIndex), <<pathSeparator>>), 1)
         \o (IF tailingSlash THEN <<pathSeparator>> ELSE <<>>)
    ELSE SliceFrom(segments[valueIndex + 1], 1)

RECURSIVE extractParams(_, _, _, _, _, _, _, _)
\* One turn of the loop of routerImpl.Match over the bytes of the route's
\* pattern, for a parameter whose label is byte i and whose name ends
\* before byte j.
extractParam(pattern, i, j, valueIndex, paramIndex, segments, tailingSlash, paramsCount, params) ==
    IF paramIndex >= paramsCount
    THEN [params |-> params, panic |-> "invalid param count"]
    ELSE IF valueIndex >= Len(segments)
    THEN [params |-> params, panic |-> "index out of range"]
    ELSE extractParams(pattern, (IF pattern[i + 1] = anyLabel THEN Len(pattern) ELSE j) + 1,
                       valueIndex + 1, paramIndex + 1, segments, tailingSlash, paramsCount,
                       [params EXCEPT ![paramIndex + 1] =
                            [Name |-> paramKey(pattern, i, j),
                             Value |-> unescaped(paramValue(pattern, i, valueIndex, segments,
                                                            tailingSlash))]])

\* The loop of routerImpl.Match over the bytes of the route's pattern, from
\* byte i (0-based): the path params, or a panic.
extractParams(pattern, i, valueIndex, paramIndex, segments, tailingSlash, paramsCount, params) ==
    IF i >= Len(pattern) THEN [params |-> params, panic |-> "none"]
    ELSE IF pattern[i + 1] = paramLabel \/ pattern[i + 1] = anyLabel
    THEN extractParam(pattern, i, NextSeparator(pattern, i), valueIndex, paramIndex, segments,
                      tailingSlash, paramsCount, params)
    ELSE extractParams(pattern, i + 1,
                       IF pattern[i + 1] = pathSeparator /\ i > 0 THEN valueIndex + 1
                       ELSE valueIndex,
                       paramIndex, segments, tailingSlash, paramsCount, params)

\* A RouteMatch without a route.
MatchResult(type, allow, params, panic, via) ==
    [type |-> type, allow |-> allow, routeId |-> 0, params |-> params, panic |-> panic,
     via |-> via]

\* The path params of a context resliced to the length n.
ZeroParams(n) == [i \in 1..n |-> NoParam]

\* The first route of the registry with the id, a nil route if there is none.
routeOf(rs, id) ==
    IF \A i \in 1..Len(rs) : rs[i].id # id THEN [id |-> 0]
    ELSE rs[CHOOSE i \in 1..Len(rs) : rs[i].id = id /\ \A j \in 1..(i - 1) : rs[j].id # id]

\* The end of routerImpl.Match for the route found, the loop over its
\* pattern having ended as ex.
matchFound(tail, lm, route, ex) ==
    IF ex.panic # "none" THEN MatchResult("Unknown", lm.ms, ex.params, ex.panic, tail.via)
    ELSE [type |-> "Found", allow |-> lm.ms, routeId |-> route.id, params |-> ex.params,
          panic |-> "none", via |-> tail.via]

\* routerImpl.Match from the lookup of the endpoint's route on.
matchRoute(sp, tail, lm, route) ==
    IF route.id = 0
    THEN MatchResult("Unknown", lm.ms, ZeroParams(tail.node.leaf.paramsCount),
                     "route not found", tail.via)
    ELSE matchFound(tail, lm, route,
                    extractParams(route.pattern, 0, 0, 0, sp.segments, sp.trailing,
                                  tail.node.leaf.paramsCount,
                                  ZeroParams(tail.node.leaf.paramsCount)))

\* routerImpl.Match from leaf.match on with a slip: the trailing slash of
\* the endpoint is not compared with the one of the request.
matchEndpointAnySlash(rs, c, sp, tail, lm) ==
    IF lm.ep = 0
    THEN MatchResult("MethodNotAllowed", lm.ms, ZeroParams(tail.node.leaf.paramsCount),
                     "none", tail.via)
    ELSE matchRoute(sp, tail, lm, routeOf(rs, tail.node.leaf.endpoints[lm.ep].routeId))

\* routerImpl.Match from leaf.match on, which returned lm.
matchEndpoint(rs, c, sp, tail, lm) ==
    IF lm.ep = 0
    THEN MatchResult("MethodNotAllowed", lm.ms, ZeroParams(tail.node.leaf.paramsCount),
                     "none", tail.via)
    ELSE IF tail.node.leaf.endpoints[lm.ep].trailingSlash # sp.trailing
            /\ ~c.routingTrailingSlash
    THEN MatchResult("MethodNotAllowed", lm.ms, ZeroParams(tail.node.leaf.paramsCount),
                     "none", tail.via)
    ELSE matchRoute(sp, tail, lm, routeOf(rs, tail.node.leaf.endpoints[lm.ep].routeId))

\* routerImpl.Match after the tree was searched, tail being the node found
\* and cap the capacity of the path-param slice.
matchTail(rs, c, method, cap, sp, tail) ==
    IF IsNil(tail.node) THEN MatchResult("NotFound", <<>>, <<>>, "none", <<>>)
    ELSE IF ~tail.node.leaf.present
    THEN MatchResult("Unknown", <<>>, <<>>, "nil pointer dereference", tail.via)
    ELSE IF tail.node.leaf.paramsCount > cap
    THEN MatchResult("Unknown", <<>>, <<>>, "slice bounds out of range", tail.via)
    ELSE matchEndpoint(rs, c, sp, tail, leafMatch(tail.node.leaf, method))

\* routerImpl.Match for a request (method, path) and a path-param slice of
\* capacity cap: the match type, the allowed methods, the id of the route
\* matched, the path params after the call, the panic the call ended with
\* ("none" if it returned), and the node of the tree that was reached.
Match(t, rs, c, method, path, cap) ==
    matchTail(rs, c, method, cap, split(path), match(t, split(path).segments, 0, <<>>))

RECURSIVE routeReverse(_, _, _, _, _)
\* The loop of routeImpl.Reverse from byte i (0-based) of the pattern, n
\* params being used and uri being written: a placeholder, up to the next
\* separator, is replaced by the next param while there is one.
routeReverse(pattern, i, n, params, uri) ==
    IF i >= Len(pattern) THEN uri
    ELSE IF pattern[i + 1] \in {paramLabel, anyLabel} /\ n < Len(params)
    THEN IF NextSeparator(pattern, i) < Len(pattern)
         THEN routeReverse(pattern, NextSeparator(pattern, i) + 1, n + 1, params,
                           Append(uri \o params[n + 1], pattern[NextSeparator(pattern, i) + 1]))
         ELSE uri \o params[n + 1]
    ELSE routeReverse(pattern, i + 1, n, params, Append(uri, pattern[i + 1]))

\* routerImpl.Reverse(name, params...): the first route of the registry
\* with the name is reversed; the empty string if there is none.
routerReverse(rs, name, params) ==
    IF \A k \in 1..Len(rs) : rs[k].name # name THEN <<>>
    ELSE routeReverse(rs[CHOOSE k \in 1..Len(rs) :
                            rs[k].name = name /\ \A j \in 1..(k - 1) : rs[j].name # name].pattern,
                      0, 0, params, <<>>)

---------------------------------------------------------------------------
(* Middleware composition and the handler chain.                           *)
(*                                                                         *)
(* A MiddlewareFunc is a record: a middleware of the application           *)
(* ([kind |-> "prim", id, beh]) or a closure returned by Compose           *)
(* ([kind |-> "composed", mws, cell], cell naming the closure's index      *)
(* variable).  A HandlerFunc is a record too: a handler of the application *)
(* ([kind |-> "h", id, beh]) or one of the closures the framework builds.  *)
(* A call takes and returns the run's state st: the trace of the           *)
(* application code entered and left, the index variables of the Compose   *)
(* closures, the context's match fields and the response.                  *)
(***************************************************************************)

\* A nil MiddlewareFunc.
NilMw == [kind |-> "nil"]

\* The behaviours of a middleware of the application: "pass" calls next
\* once and returns what it returned; "stop" returns an error without
\* calling next; "twice" calls next, and calls it again if the first call
\* returned nil.
MwBehaviours == {"pass", "stop", "twice"}

\* Compose(middleware...): the middleware returned, and the state with the
\* closure's index variable, initially -1, when a closure is built.
Compose(mws, st) ==
    IF Len(mws) = 0 THEN [mw |-> NilMw, st |-> st]
    ELSE IF Len(mws) = 1 THEN [mw |-> mws[1], st |-> st]
    ELSE [mw |-> [kind |-> "composed", mws |-> mws, cell |-> Len(st.cells) + 1],
          st |-> [st EXCEPT !.cells = Append(@, -1)]]

\* ResponseWriter.WriteHeader(code): a second call is a no-op.
WriteHeader(st, code) ==
    IF st.written THEN st ELSE [st EXCEPT !.written = TRUE, !.status = code]

\* The collectors from collector c up to the root, c first.
RECURSIVE collectorChain(_, _)
collectorChain(cs, c) ==
    IF c = 0 THEN <<>> ELSE <<c>> \o collectorChain(cs, cs[c].parent)

\* slices.Reverse
Reverse(s) == [i \in 1..Len(s) |-> s[Len(s) + 1 - i]]

\* if mw := collector.Compose(); mw != nil { stack = append(stack, mw) }
stacked(stack, c) ==
    [stack |-> IF c.mw.kind = "nil" THEN stack ELSE Append(stack, c.mw), st |-> c.st]

RECURSIVE composeStack(_, _, _, _)
\* The loop of ComposeChainHandler over the collectors of chain, from
\* collector k (1-based): the non-nil composed middleware of each, in the
\* order of the loop.
composeStack(cs, chain, k, acc) ==
    IF k > Len(chain) THEN acc
    ELSE composeStack(cs, chain, k + 1,
                      stacked(acc.stack, Compose(cs[chain[k]].middleware, acc.st)))

\* A call in progress is a machine: the stack of the calls still to be made
\* or to be returned to, innermost first, the run's state, and the error
\* that the call that returned last returned.  The frames of the stack:
\* a handler to call, a middleware to call with its next, and the rest of
\* a middleware of the application after its call of next returned
\* ("again" for one that calls next a second time, "out" for its post-next
\* part).
HandlerFrame(h) == [f |-> "handler", h |-> h]

MiddlewareFrame(mw, next) == [f |-> "middleware", mw |-> mw, next |-> next]

\* The machine that goes on to make the calls of stack.
Call(stack, st) == [stack |-> stack, st |-> st, err |-> "nil"]

\* The machine after a call returned err to the caller on top of stack.
Return(stack, st, err) == [stack |-> stack, st |-> st, err |-> err]

\* The machine after a panic p: it unwinds every caller.
Panic(st, p) == [stack |-> <<>>, st |-> [st EXCEPT !.panic = p], err |-> "nil"]

\* if mw == nil { return h(c) }; return mw(c, h) -- for c the result of Compose
invoke(c, h, rest) ==
    IF c.mw.kind = "nil" THEN Call(<<HandlerFrame(h)>> \o rest, c.st)
    ELSE Call(<<MiddlewareFrame(c.mw, h)>> \o rest, c.st)

\* dispatch(i) with a slip: past the last middleware it returns nil without
\* calling the terminal handler.
dispatchWithoutTerminal(comp, i, next, rest, st) ==
    IF i <= st.cells[comp.cell]
    THEN Return(rest, st, "next() called multiple times")
    ELSE IF i = Len(comp.mws)
    THEN Return(rest, [st EXCEPT !.cells[comp.cell] = i], "nil")
    ELSE Call(<<MiddlewareFrame(comp.mws[i + 1],
                                [kind |-> "dispatch", comp |-> comp, i |-> i + 1,
                                 next |-> next])>> \o rest,
              [st EXCEPT !.cells[comp.cell] = i])

\* dispatch(i) of the closure that Compose returned for comp, invoked with
\* the terminal handler next.
dispatch(comp, i, next, rest, st) ==
    IF i <= st.cells[comp.cell]
    THEN Return(rest, st, "next() called multiple times")
    ELSE IF i = Len(comp.mws)
    THEN Call(<<HandlerFrame(next)>> \o rest, [st EXCEPT !.cells[comp.cell] = i])
    ELSE Call(<<MiddlewareFrame(comp.mws[i + 1],
                                [kind |-> "dispatch", comp |-> comp, i |-> i + 1,
                                 next |-> next])>> \o rest,
              [st EXCEPT !.cells[comp.cell] = i])

\* mw(c, next) with a slip: a middleware that returns without calling next
\* has its next called all the same.
callMiddlewareNextAlways(mw, next, rest, st) ==
    IF mw.kind = "composed" THEN dispatch(mw, 0, next, rest, st)
    ELSE Call(<<HandlerFrame(next),
                [f |-> IF mw.beh = "twice" THEN "again" ELSE "out", mw |-> mw, next |-> next]>>
              \o rest,
              [st EXCEPT !.trace = Append(@, <<"in", mw.id>>)])

\* mw(c, next): a closure of Compose, or a middleware of the application up
\* to its call of next.
callMiddleware(mw, next, rest, st) ==
    IF mw.kind = "composed" THEN dispatch(mw, 0, next, rest, st)
    ELSE IF mw.beh = "stop"
    THEN Return(rest, [st EXCEPT !.trace = Append(@, <<"in", mw.id>>)], "stopped")
    ELSE Call(<<HandlerFrame(next),
                [f |-> IF mw.beh = "twice" THEN "again" ELSE "out", mw |-> mw, next |-> next]>>
              \o rest,
              [st EXCEPT !.trace = Append(@, <<"in", mw.id>>)])

\* The handler that Slim.findHandler returns for the match m, called.
findHandler(env, m, rest, st) ==
    IF m.panic # "none"
    THEN Panic([st EXCEPT !.match = m, !.matches = @ + 1, !.router = env.router], m.panic)
    ELSE invoke(Compose(env.routerMiddleware,
                        [st EXCEPT !.match = m, !.matches = @ + 1, !.router = env.router]),
                CASE m.type = "NotFound" -> [kind |-> "NotFoundHandler"]
                  [] m.type = "MethodNotAllowed" -> [kind |-> "MethodNotAllowedHandler"]
                  [] OTHER -> [kind |-> "ComposeChainHandler", routeId |-> m.routeId],
                rest)

\* The end of that handler with a slip: the stack is not reversed, so that
\* the innermost collector comes first.
composeChainInnerFirst(route, rest, cs) ==
    invoke(Compose(cs.stack, cs.st), [kind |-> "routeTerminal", route |-> route], rest)

\* The end of the handler that ComposeChainHandler(route) returns, the
\* loop over the collectors having ended as cs.
composeChain(route, rest, cs) ==
    invoke(Compose(Reverse(cs.stack), cs.st), [kind |-> "routeTerminal", route |-> route], rest)

\* The handler that ComposeChainHandler(route) returns, called.
ComposeChainHandler(env, route, rest, st) ==
    composeChain(route, rest,
                 composeStack(env.collectors, collectorChain(env.collectors, route.collector),
                              1, [stack |-> <<>>, st |-> st]))

\* h(c)
callHandler(env, h, rest, st) ==
    CASE h.kind = "h" ->
            IF h.beh = "ok"
            THEN Return(rest, WriteHeader([st EXCEPT !.trace = Append(@, <<"h", h.id>>)], 200),
                        "nil")
            ELSE Return(rest, [st EXCEPT !.trace = Append(@, <<"h", h.id>>)],
                        IF h.beh = "fail" THEN "failed" ELSE h.beh)
      [] h.kind = "dispatch" -> dispatch(h.comp, h.i, h.next, rest, st)
      [] h.kind = "NotFoundHandler" -> Return(rest, st, "ErrNotFound")
      [] h.kind = "MethodNotAllowedHandler" -> Return(rest, st, "ErrMethodNotAllowed")
      [] h.kind = "findHandler" ->
            \* func(cc Context) error { return s.findHandler(c, router)(cc) }
            findHandler(env, Match(env.tree, env.routes, env.cfg, env.method, env.path, env.cap),
                        rest, st)
      [] h.kind = "ComposeChainHandler" ->
            ComposeChainHandler(env, routeOf(env.routes, h.routeId), rest, st)
      [] h.kind = "routeTerminal" ->
            invoke(Compose(h.route.middleware, st), h.route.handler, rest)

\* One step of the machine: the call on top of the stack is made, or the
\* middleware on top of the stack goes on after its next returned.
Step(env, m) ==
    CASE m.stack[1].f = "handler" -> callHandler(env, m.stack[1].h, Tail(m.stack), m.st)
      [] m.stack[1].f = "middleware" ->
            callMiddleware(m.stack[1].mw, m.stack[1].next, Tail(m.stack), m.st)
      [] m.stack[1].f = "again" /\ m.err = "nil" ->
            Call(<<HandlerFrame(m.stack[1].next), [m.stack[1] EXCEPT !.f = "out"]>>
                 \o Tail(m.stack), m.st)
      [] OTHER ->
            Return(Tail(m.stack),
                   [m.st EXCEPT !.trace = Append(@, <<"out", m.stack[1].mw.id>>)], m.err)

RECURSIVE Run(_, _)
\* The machine run until the outermost call returned or panicked: the
\* state then, and the error returned.
Run(env, m) ==
    IF m.stack = <<>> THEN [st |-> m.st, err |-> m.err] ELSE Run(env, Step(env, m))

\* mw(c, next), run to its end.
CallMiddleware(env, mw, next, st) == Run(env, Call(<<MiddlewareFrame(mw, next)>>, st))

\* h(c), run to its end.
CallHandler(env, h, st) == Run(env, Call(<<HandlerFrame(h)>>, st))

---------------------------------------------------------------------------
(* The HTTP entry point. *)

\* A nil ErrorHandler.
NoErrorHandler == [id |-> 0, code |-> 0]

\* routeCollectorImpl.HandleError with a slip: a collector without an error
\* handler hands the error to the router, whatever its parents have.
collectorHandleErrorSkippingParents(env, c) ==
    IF env.collectors[c].errorHandler.id # 0
    THEN [by |-> <<"collector", c>>, eh |-> env.collectors[c].errorHandler]
    ELSE IF env.routerErrorHandler.id # 0
    THEN [by |-> <<"router", 0>>, eh |-> env.routerErrorHandler]
    ELSE [by |-> <<"slim", 0>>, eh |-> env.slimErrorHandler]

RECURSIVE collectorHandleError(_, _)
\* routeCollectorImpl.HandleError of collector c, with geteh and
\* routerImpl.HandleError: the error handler that ends up handling the
\* error.
collectorHandleError(env, c) ==
    IF env.collectors[c].errorHandler.id # 0
    THEN [by |-> <<"collector", c>>, eh |-> env.collectors[c].errorHandler]
    ELSE IF env.collectors[c].parent # 0
    THEN collectorHandleError(env, env.collectors[c].parent)
    ELSE IF env.routerErrorHandler.id # 0
    THEN [by |-> <<"router", 0>>, eh |-> env.routerErrorHandler]
    ELSE [by |-> <<"slim", 0>>, eh |-> env.slimErrorHandler]

\* DefaultErrorHandler
DefaultErrorHandler(st, err) ==
    IF st.written THEN st
    ELSE IF err = "ErrNotFound" THEN WriteHeader(st, 404)
    ELSE IF err = "ErrMethodNotAllowed"
    THEN WriteHeader([st EXCEPT !.allowHeader = st.match.allow], 405)
    ELSE WriteHeader(st, 500)

\* ErrorHandler.HandleError of an error handler: the default one, or one
\* of the application, which writes its status code.
HandleError(eh, st, err) ==
    IF eh.id = 0 THEN DefaultErrorHandler(st, err) ELSE WriteHeader(st, eh.code)

\* The error handled by the error handler h.eh, which belongs to h.by.
handledBy(h, st, err) == [HandleError(h.eh, st, err) EXCEPT !.handledBy = h.by]

\* Slim.handleError with a slip: without a route, the error handler of the
\* router is asked before the one of the server.
handleErrorRouterFirst(env, st, err) ==
    IF st.match.type = "Found"
    THEN handledBy(collectorHandleError(env, routeOf(env.routes, st.match.routeId).collector),
                   st, err)
    ELSE IF env.routerErrorHandler.id # 0
    THEN handledBy([by |-> <<"router", 0>>, eh |-> env.routerErrorHandler], st, err)
    ELSE handledBy([by |-> <<"slim", 0>>, eh |-> env.slimErrorHandler], st, err)

\* Slim.handleError
handleError(env, st, err) ==
    IF st.match.type = "Found"
    THEN handledBy(collectorHandleError(env, routeOf(env.routes, st.match.routeId).collector),
                   st, err)
    ELSE handledBy([by |-> <<"slim", 0>>, eh |-> env.slimErrorHandler], st, err)

\* The state of a context after Reset, before the chain runs.
ResetState ==
    [trace |-> <<>>, cells |-> <<>>, written |-> FALSE, status |-> 0, allowHeader |-> <<>>,
     match |-> MatchResult("Unknown", <<>>, <<>>, "none", <<>>), matches |-> 0,
     panic |-> "none", handledBy |-> <<"none", 0>>, router |-> -1]

\* The end of Slim.ServeHTTP, the chain having ended as r: the error is
\* handled and the context released, unless the chain panicked.
afterChain(env, r) ==
    IF r.st.panic # "none" THEN [st |-> r.st, err |-> "nil", released |-> FALSE]
    ELSE IF r.err # "nil"
    THEN [st |-> handleError(env, r.st, r.err), err |-> r.err, released |-> TRUE]
    ELSE [st |-> r.st, err |-> r.err, released |-> TRUE]

\* Slim.ServeHTTP with a context whose path-param slice has capacity
\* env.cap: the state at the end of the call, the error the chain
\* returned, and whether the context was released to the pool.
ServeHTTP(env) ==
    afterChain(env, Run(env, invoke(Compose(env.middleware, ResetState),
                                    [kind |-> "findHandler"], <<>>)))

---------------------------------------------------------------------------
(* Virtual hosts: the router of a request. *)

\* strings.IndexByte(s, c): the index (0-based) of the first c in s, -1 if
\* there is none.
IndexByte(s, c) ==
    IF \E i \in 1..Len(s) : s[i] = c
    THEN (CHOOSE i \in 1..Len(s) : s[i] = c /\ \A j \in 1..(i - 1) : s[j] # c) - 1
    ELSE -1

\* strings.LastIndexByte(s, c)
LastIndexByte(s, c) ==
    IF \E i \in 1..Len(s) : s[i] = c
    THEN (CHOOSE i \in 1..Len(s) : s[i] = c /\ \A j \in (i + 1)..Len(s) : s[j] # c) - 1
    ELSE -1

RECURSIVE StringsSplit(_, _)
\* strings.Split(s, sep) for a separator of one byte
StringsSplit(s, sep) ==
    IF IndexByte(s, sep) = -1 THEN <<s>>
    ELSE <<Slice(s, 0, IndexByte(s, sep))>> \o StringsSplit(SliceFrom(s, IndexByte(s, sep) + 1), sep)

\* strings.SplitN(s, sep, 2) for a separator of one byte
SplitN2(s, sep) ==
    IF IndexByte(s, sep) = -1 THEN <<s>>
    ELSE <<Slice(s, 0, IndexByte(s, sep)), SliceFrom(s, IndexByte(s, sep) + 1)>>

RECURSIVE Trim(_, _)
\* strings.Trim(s, cutset), the cutset being a set of bytes
Trim(s, cutset) ==
    IF s = <<>> THEN s
    ELSE IF s[1] \in cutset THEN Trim(Tail(s), cutset)
    ELSE IF s[Len(s)] \in cutset THEN Trim(SubSeq(s, 1, Len(s) - 1), cutset)
    ELSE s

\* strings.TrimSpace(s), the space being the white space of the model's
\* strings
TrimSpace(s) == Trim(s, {" "})

\* strings.ToLower(s), for the letters of the model's strings
ToLower(s) ==
    [i \in 1..Len(s) |->
        CASE s[i] = "H" -> "h" [] s[i] = "O" -> "o" [] s[i] = "S" -> "s" [] s[i] = "T" -> "t"
          [] OTHER -> s[i]]

RECURSIVE forwardedHost(_, _)
\* The loop of findRouterByRequest over the pairs of the Forwarded header,
\* from pair k (1-based): the value of the first pair whose token is host,
\* the empty string if there is none.
forwardedHost(pairs, k) ==
    IF k > Len(pairs) THEN <<>>
    ELSE IF Len(SplitN2(pairs[k], "=")) = 2
            /\ ToLower(TrimSpace(SplitN2(pairs[k], "=")[1])) = <<"h", "o", "s", "t">>
    THEN TrimSpace(Trim(SplitN2(pairs[k], "=")[2], {"\""}))
    ELSE forwardedHost(pairs, k + 1)

\* The host that findRouterByRequest has when the X-Forwarded-Host header
\* is empty.
forwardedOrHost(req) ==
    IF req.forwarded # <<>> /\ forwardedHost(StringsSplit(req.forwarded, ";"), 1) # <<>>
    THEN forwardedHost(StringsSplit(req.forwarded, ";"), 1)
    ELSE req.host

\* The host that findRouterByRequest passes to findRouter, with a slip: the
\* Forwarded header is read before the X-Forwarded-Host header.
requestHostForwardedFirst(req) ==
    IF req.forwarded # <<>> /\ forwardedHost(StringsSplit(req.forwarded, ";"), 1) # <<>>
    THEN forwardedHost(StringsSplit(req.forwarded, ";"), 1)
    ELSE IF req.xForwardedHost # <<>> THEN req.xForwardedHost ELSE req.host

\* The host that findRouterByRequest passes to findRouter.
requestHost(req) ==
    IF req.xForwardedHost # <<>> THEN req.xForwardedHost ELSE forwardedOrHost(req)

\* Slim.findRouter, from the test for a wildcard host on: the host is not in
\* the table.
findWildcard(rts, router, host) ==
    IF Slice(host, 0, 2) = <<"*", ".">> THEN router
    ELSE IF IndexByte(host, ".") = -1 \/ IndexByte(host, ".") = LastIndexByte(host, ".")
    THEN router
    ELSE IF (<<"*", ".">> \o SliceFrom(host, LastIndexByte(host, "."))) \in DOMAIN rts
    THEN rts[<<"*", ".">> \o SliceFrom(host, LastIndexByte(host, "."))]
    ELSE router

\* Slim.findRouter(host), rts being Slim.routers and router the default
\* router.
findRouter(rts, router, host) ==
    IF DOMAIN rts # {} /\ IndexByte(host, ".") # -1 /\ host # <<".">>
    THEN IF host \in DOMAIN rts THEN rts[host] ELSE findWildcard(rts, router, host)
    ELSE router

\* Slim.findRouterByRequest(r)
findRouterByRequest(rts, router, req) ==
    IF DOMAIN rts = {} THEN router ELSE findRouter(rts, router, requestHost(req))

---------------------------------------------------------------------------
(* The state machine of a server with its default router. *)

\* The handler registered with route id: it writes status 200.
OkHandler(id) == [kind |-> "h", id |-> id, beh |-> "ok"]

\* A middleware of the application, named by the list it was added to and
\* its place in that list.
Mw(id, beh) == [kind |-> "prim", id |-> id, beh |-> beh]

\* NewRouteCollector(prefix, parent, router)
NewRouteCollector(prefix, parent) ==
    [parent |-> parent, prefix |-> prefix, middleware |-> <<>>, errorHandler |-> NoErrorHandler]

\* The root collector of a router.
RootCollector == NewRouteCollector(<<>>, 0)

\* No middleware composed yet.
NoComposed == [mw |-> NilMw, cells |-> <<>>, layers |-> <<>>, invoked |-> FALSE]

\* s.router: the default router, as a router of the server.
defaultRouter ==
    [id |-> 0, cfg |-> cfg, tree |-> tree, routes |-> routes, middleware |-> routerMiddleware,
     collectors |-> collectors, errorHandler |-> routerErrorHandler]

\* s.NewRouter(): a router of the default configuration; id tells the
\* routers apart.
NewRouter(id) ==
    [id |-> id, cfg |-> [allowOverwritingRoute |-> FALSE, routingTrailingSlash |-> FALSE],
     tree |-> NewNode("static", <<>>), routes |-> <<>>, middleware |-> <<>>,
     collectors |-> <<RootCollector>>, errorHandler |-> NoErrorHandler]

\* A request without the headers that name a host.
Request(method, path) ==
    [method |-> method, path |-> path, host |-> <<>>, xForwardedHost |-> <<>>,
     forwarded |-> <<>>]

\* The server and the request seen by a call of ServeHTTP whose router is
\* rt.
envOf(req, cap, rt) ==
    [tree |-> rt.tree, routes |-> rt.routes, cfg |-> rt.cfg, method |-> req.method,
     path |-> req.path, cap |-> cap, middleware |-> middleware,
     routerMiddleware |-> rt.middleware, collectors |-> rt.collectors,
     routerErrorHandler |-> rt.errorHandler, slimErrorHandler |-> slimErrorHandler,
     router |-> rt.id]

\* The server and the request seen by a call of ServeHTTP: the router is
\* the one that findRouterByRequest returns.
Env(req, cap) == envOf(req, cap, findRouterByRequest(routers, defaultRouter, req))

\* s.NewContext(nil, nil), as the pool creates a context.
NewContext == [cap |-> allocSize, len |-> allocSize, route |-> 0]

\* New(): a server whose default router has a configuration of the
\* universe, before any route is registered.
InitWith(u) ==
    /\ universe = u
    /\ cfg \in u.cfgs
    /\ tree = NewNode("static", <<>>)
    /\ routes = <<>>
    /\ nextRouteId = 0
    /\ allocSize = 0
    /\ pool = {}
    /\ middleware = <<>>
    /\ routerMiddleware = <<>>
    /\ collectors = <<RootCollector>>
    /\ composed = NoComposed
    /\ routers = [h \in {} |-> NewRouter(0)]
    /\ routerErrorHandler = NoErrorHandler
    /\ slimErrorHandler = NoErrorHandler
    /\ ops = 0
    /\ last = [op |-> "New"]

RECURSIVE fullPattern(_, _, _)
\* The loop of routeCollectorImpl.Some that prepends the prefixes of the
\* collector and of its ancestors to the pattern.
fullPattern(cs, c, pattern) ==
    IF c = 0 THEN pattern ELSE fullPattern(cs, cs[c].parent, cs[c].prefix \o pattern)

\* tail.leaf.endpoints for the tail that insert returns for the pattern,
\* as routerImpl.Add finds them before its loop over the methods.
endpointsAt(t, pattern) ==
    leafAt(insert(t, split(pattern).segments, <<>>, 0).node, split(pattern).segments, 0).endpoints

\* The router after a call of Add that ended as r, before being the
\* endpoints that the call found at the leaf of the pattern; those of them
\* whose route was in the registry are remembered by the id of the route.
Added(methods, pattern, r, before) ==
    /\ tree' = r.tree
    /\ routes' = r.routes
    /\ nextRouteId' = r.nextRouteId
    /\ allocSize' = r.allocSize
    /\ last' = [op |-> "Add", methods |-> methods, pattern |-> pattern,
                panic |-> r.panic, routeId |-> r.route.id, before |-> before,
                registered |-> {before[i].routeId : i \in {j \in 1..Len(before) :
                                    routeOf(routes, before[j].routeId).id # 0}}]

\* collectors[c].Some(methods, pattern, h), h being a handler of the
\* application with the behaviour beh: "ok" writes the status 200 and
\* returns nil, "fail" returns an error made by errors.New, and the name of
\* an error variable of the package returns that error.
DoAddHandler(c, methods, pattern, beh) ==
    /\ ops < MaxOps
    /\ Added(methods, pattern,
             Add(tree, routes, nextRouteId, allocSize, cfg, methods,
                 fullPattern(collectors, c, pattern), c, <<>>,
                 [OkHandler(nextRouteId + 1) EXCEPT !.beh = beh]),
             endpointsAt(tree, fullPattern(collectors, c, pattern)))
    /\ ops' = ops + 1
    /\ UNCHANGED <<cfg, pool, middleware, routerMiddleware, collectors, composed, universe,
                   routers, routerErrorHandler, slimErrorHandler>>

\* collectors[c].Some(methods, pattern, h) for a handler that succeeds
DoAdd(c, methods, pattern) == DoAddHandler(c, methods, pattern, "ok")

\* The router after a call of Remove that ended as r, m being the node of
\* the pattern before the call.
Removed(methods, pattern, r, m) ==
    /\ tree' = r.tree
    /\ routes' = r.routes
    /\ last' = [op |-> "Remove", methods |-> methods, pattern |-> pattern,
                panic |-> r.panic, err |-> r.err, removed |-> r.removed,
                before |-> IF IsNil(m.node) THEN <<>> ELSE m.node.leaf.endpoints]

\* s.Router().Remove(methods, pattern)
DoRemove(methods, pattern) ==
    /\ ops < MaxOps
    /\ Removed(methods, pattern, Remove(tree, routes, cfg, methods, pattern),
               match(tree, split(pattern).segments, 0, <<>>))
    /\ ops' = ops + 1
    /\ UNCHANGED <<cfg, nextRouteId, allocSize, pool, middleware, routerMiddleware,
                   collectors, composed, universe, routers, routerErrorHandler,
                   slimErrorHandler>>

\* The server after a call of ServeHTTP with the context c that ended as r.
Served(req, c, r) ==
    /\ last' = [op |-> "ServeHTTP", method |-> req.method, path |-> req.path, cap |-> c.cap,
                host |-> req.host, xForwardedHost |-> req.xForwardedHost,
                forwarded |-> req.forwarded, router |-> r.st.router,
                match |-> r.st.match, status |-> r.st.status,
                allowHeader |-> r.st.allowHeader, err |-> r.err,
                panic |-> r.st.panic, trace |-> r.st.trace,
                handledBy |-> r.st.handledBy]
    /\ pool' = IF r.released
               THEN (pool \ {c}) \cup {[cap |-> c.cap, len |-> Len(r.st.match.params),
                                        route |-> r.st.match.routeId]}
               ELSE pool \ {c}

\* s.ServeHTTP(w, r) for a request req: the context c comes from the pool,
\* which hands out one released earlier or a new one, created with the
\* allocation size of the moment; it goes back to the pool as the call
\* leaves it, unless the call panics.
DoServeHTTP(req, c) ==
    /\ Served(req, c, ServeHTTP(Env(req, c.cap)))
    /\ UNCHANGED <<cfg, tree, routes, nextRouteId, allocSize, middleware, routerMiddleware,
                   collectors, composed, universe, routers, routerErrorHandler,
                   slimErrorHandler, ops>>

\* s.Use(mw)
DoUse(beh) ==
    /\ Len(middleware) < MaxMw
    /\ middleware' = Append(middleware, Mw(<<"global", 0, Len(middleware) + 1>>, beh))
    /\ last' = [op |-> "Use"]
    /\ UNCHANGED <<cfg, tree, routes, nextRouteId, allocSize, pool, routerMiddleware,
                   collectors, composed, universe, routers, routerErrorHandler,
                   slimErrorHandler, ops>>

\* s.Router().Use(mw)
DoRouterUse(beh) ==
    /\ Len(routerMiddleware) < MaxMw
    /\ routerMiddleware' = Append(routerMiddleware,
                                  Mw(<<"router", 0, Len(routerMiddleware) + 1>>, beh))
    /\ last' = [op |-> "Use"]
    /\ UNCHANGED <<cfg, tree, routes, nextRouteId, allocSize, pool, middleware,
                   collectors, composed, universe, routers, routerErrorHandler,
                   slimErrorHandler, ops>>

\* collectors[parent].Route(prefix, fn), and collectors[parent].Group(fn)
\* for the empty prefix: the collector that fn receives.
DoRoute(parent, prefix) ==
    /\ Len(collectors) + 1 \in universe.collectors
    /\ collectors' = Append(collectors, NewRouteCollector(prefix, parent))
    /\ last' = [op |-> "Route"]
    /\ UNCHANGED <<cfg, tree, routes, nextRouteId, allocSize, pool, middleware,
                   routerMiddleware, composed, universe, routers, routerErrorHandler,
                   slimErrorHandler, ops>>

\* collectors[c].Use(mw)
DoCollectorUse(c, beh) ==
    /\ Len(collectors[c].middleware) < MaxMw
    /\ collectors' = [collectors EXCEPT ![c].middleware =
                        Append(@, Mw(<<"collector", c, Len(@) + 1>>, beh))]
    /\ last' = [op |-> "Use"]
    /\ UNCHANGED <<cfg, tree, routes, nextRouteId, allocSize, pool, middleware,
                   routerMiddleware, composed, universe, routers, routerErrorHandler,
                   slimErrorHandler, ops>>

\* routes[i].Use(mw)
DoRouteUse(i, beh) ==
    /\ Len(routes[i].middleware) < MaxMw
    /\ routes' = [routes EXCEPT ![i].middleware =
                        Append(@, Mw(<<"route", routes[i].id, Len(@) + 1>>, beh))]
    /\ last' = [op |-> "Use"]
    /\ UNCHANGED <<cfg, tree, nextRouteId, allocSize, pool, middleware, routerMiddleware,
                   collectors, composed, universe, routers, routerErrorHandler,
                   slimErrorHandler, ops>>

\* The middleware that a call of Compose returned as c.
Composed(behs, c) ==
    composed' = [mw |-> c.mw, cells |-> c.st.cells, layers |-> behs, invoked |-> FALSE]

\* mw := Compose(m1, ..., mn), the middlewares having the behaviours behs.
DoCompose(behs) ==
    /\ Composed(behs, Compose([i \in 1..Len(behs) |-> Mw(<<"layer", 0, i>>, behs[i])],
                              ResetState))
    /\ last' = [op |-> "Compose"]
    /\ UNCHANGED <<cfg, tree, routes, nextRouteId, allocSize, pool, middleware,
                   routerMiddleware, collectors, universe, routers, routerErrorHandler,
                   slimErrorHandler, ops>>

\* The composed middleware after a call of it that ended as r.
Invoked(hbeh, r) ==
    /\ composed' = [composed EXCEPT !.cells = r.st.cells, !.invoked = TRUE]
    /\ last' = [op |-> "Invoke", layers |-> composed.layers, hbeh |-> hbeh,
                first |-> ~composed.invoked, trace |-> r.st.trace, err |-> r.err]

\* mw(c, h) for the middleware that Compose returned and a terminal handler
\* h of behaviour hbeh, with a new context.
DoInvoke(hbeh) ==
    /\ composed.mw.kind # "nil"
    /\ Invoked(hbeh, CallMiddleware(Env(Request("GET", <<>>), 0), composed.mw,
                                    [kind |-> "h", id |-> 0, beh |-> hbeh],
                                    [ResetState EXCEPT !.cells = composed.cells]))
    /\ UNCHANGED <<cfg, tree, routes, nextRouteId, allocSize, pool, middleware,
                   routerMiddleware, collectors, universe, routers, routerErrorHandler,
                   slimErrorHandler, ops>>

\* collectors[c].UseErrorHandler(h), and s.Router().UseErrorHandler(h) for
\* c = 0, h being an error handler of the application that writes the
\* status code.
DoUseErrorHandler(c, code) ==
    /\ IF c = 0
       THEN /\ routerErrorHandler' = [id |-> 1, code |-> code]
            /\ UNCHANGED collectors
       ELSE /\ collectors' = [collectors EXCEPT ![c].errorHandler = [id |-> 1, code |-> code]]
            /\ UNCHANGED routerErrorHandler
    /\ last' = [op |-> "UseErrorHandler"]
    /\ UNCHANGED <<cfg, tree, routes, nextRouteId, allocSize, pool, middleware,
                   routerMiddleware, composed, universe, routers, slimErrorHandler, ops>>

\* s.ErrorHandler = h
DoSetErrorHandler(code) ==
    /\ slimErrorHandler' = [id |-> 1, code |-> code]
    /\ last' = [op |-> "SetErrorHandler"]
    /\ UNCHANGED <<cfg, tree, routes, nextRouteId, allocSize, pool, middleware,
                   routerMiddleware, collectors, composed, universe, routers,
                   routerErrorHandler, ops>>

\* s.Router().Reverse(name, params...)
DoReverse(name, params) ==
    /\ last' = [op |-> "Reverse", name |-> name, params |-> params,
                path |-> routerReverse(routes, name, params)]
    /\ UNCHANGED <<cfg, tree, routes, nextRouteId, allocSize, pool, middleware,
                   routerMiddleware, collectors, composed, universe, routers,
                   routerErrorHandler, slimErrorHandler, ops>>

\* s.Host(name): a new router takes the place of name in the table, whether
\* or not name had a router.
DoHost(name) ==
    /\ ops < MaxOps
    /\ routers' = [h \in DOMAIN routers \cup {name} |->
                        IF h = name THEN NewRouter(ops + 1) ELSE routers[h]]
    /\ last' = [op |-> "Host", name |-> name, routerId |-> ops + 1,
                before |-> IF name \in DOMAIN routers THEN routers[name] ELSE NewRouter(0)]
    /\ ops' = ops + 1
    /\ UNCHANGED <<cfg, tree, routes, nextRouteId, allocSize, pool, middleware,
                   routerMiddleware, collectors, composed, universe, routerErrorHandler,
                   slimErrorHandler>>

\* The router of the host name after a call of Add that ended as r.
HostAdded(name, methods, pattern, r) ==
    /\ routers' = [routers EXCEPT ![name].tree = r.tree, ![name].routes = r.routes]
    /\ nextRouteId' = r.nextRouteId
    /\ allocSize' = r.allocSize
    /\ last' = [op |-> "HostAdd", name |-> name, methods |-> methods, pattern |-> pattern,
                panic |-> r.panic, routeId |-> r.route.id, routerId |-> routers[name].id]

\* router.Some(methods, pattern, h) for the router that s.Host(name)
\* returned last.
DoHostAdd(name, methods, pattern) ==
    /\ ops < MaxOps
    /\ HostAdded(name, methods, pattern,
                 Add(routers[name].tree, routers[name].routes, nextRouteId, allocSize,
                     routers[name].cfg, methods, pattern, 1, <<>>, OkHandler(nextRouteId + 1)))
    /\ ops' = ops + 1
    /\ UNCHANGED <<cfg, tree, routes, pool, middleware, routerMiddleware, collectors,
                   composed, universe, routerErrorHandler, slimErrorHandler>>

\* s.AcquireContext() by the application: the pool hands out a context
\* released earlier or a new one.
DoAcquireContext(c) ==
    /\ pool' = pool \ {c}
    /\ last' = [op |-> "AcquireContext", ctx |-> c]
    /\ UNCHANGED <<cfg, tree, routes, nextRouteId, allocSize, middleware, routerMiddleware,
                   collectors, composed, universe, routers, routerErrorHandler,
                   slimErrorHandler, ops>>

\* The calls on the router of a server: registration, removal, requests.
NextRouter ==
    \/ \E ms \in universe.addMethods, p \in universe.patterns : DoAdd(1, ms, p)
    \/ \E ms \in universe.removeMethods, p \in universe.patterns : DoRemove(ms, p)
    \/ \E m \in universe.reqMethods, p \in universe.paths, c \in pool \cup {NewContext} :
            DoServeHTTP(Request(m, p), c)

\* The calls that build and run the handler chain of a server.
NextChain ==
    \/ \E b \in universe.behaviours : DoUse(b)
    \/ \E b \in universe.behaviours : DoRouterUse(b)
    \/ \E c \in 1..Len(collectors), x \in universe.prefixes : DoRoute(c, x)
    \/ \E c \in 2..Len(collectors), b \in universe.behaviours : DoCollectorUse(c, b)
    \/ \E i \in 1..Len(routes), b \in universe.behaviours : DoRouteUse(i, b)
    \/ \E c \in 1..Len(collectors), ms \in universe.addMethods, p \in universe.patterns :
            DoAdd(c, ms, p)
    \/ \E m \in universe.reqMethods, p \in universe.paths, c \in pool \cup {NewContext} :
            DoServeHTTP(Request(m, p), c)

\* The calls on a server with virtual hosts.
NextHosts ==
    \/ \E h \in universe.hosts : DoHost(h)
    \/ \E h \in DOMAIN routers, ms \in universe.addMethods, p \in universe.patterns :
            DoHostAdd(h, ms, p)
    \/ \E ms \in universe.addMethods, p \in universe.patterns : DoAdd(1, ms, p)
    \/ \E m \in universe.reqMethods, p \in universe.paths, h \in universe.headers,
          c \in pool \cup {NewContext} :
            DoServeHTTP([Request(m, p) EXCEPT !.host = h.host,
                                              !.xForwardedHost = h.xForwardedHost,
                                              !.forwarded = h.forwarded], c)

\* The calls on a server whose handlers fail and whose collectors, router
\* and server have error handlers.
NextErrors ==
    \/ \E c \in 1..Len(collectors), x \in universe.prefixes : DoRoute(c, x)
    \/ \E c \in 0..Len(collectors), code \in universe.codes : DoUseErrorHandler(c, code)
    \/ \E code \in universe.codes : DoSetErrorHandler(code)
    \/ \E c \in 1..Len(collectors), ms \in universe.addMethods, p \in universe.patterns,
          b \in universe.handlers : DoAddHandler(c, ms, p, b)
    \/ \E m \in universe.reqMethods, p \in universe.paths, c \in pool \cup {NewContext} :
            DoServeHTTP(Request(m, p), c)

\* The calls that register routes and build paths from their names.
NextReverse ==
    \/ \E ms \in universe.addMethods, p \in universe.patterns : DoAdd(1, ms, p)
    \/ \E name \in 1..nextRouteId, params \in universe.params : DoReverse(name, params)

\* The calls on a server with middlewares of its own, failing handlers and
\* error handlers.
NextGlobal ==
    \/ \E b \in universe.behaviours : DoUse(b)
    \/ NextErrors

\* The calls on the router of a server and on its pool of contexts.
NextPool ==
    \/ \E ms \in universe.addMethods, p \in universe.patterns : DoAdd(1, ms, p)
    \/ \E m \in universe.reqMethods, p \in universe.paths, c \in pool \cup {NewContext} :
            DoServeHTTP(Request(m, p), c)
    \/ \E c \in pool \cup {NewContext} : DoAcquireContext(c)

\* The calls of Compose and of the middleware it returns.
NextCompose ==
    \/ \E behs \in UNION {[1..n -> universe.behaviours] : n \in 0..MaxLayers} : DoCompose(behs)
    \/ \E hbeh \in universe.handlers : DoInvoke(hbeh)

---------------------------------------------------------------------------
(* The calls the environment makes: the universes of the specifications. *)

\* Method lists.
GET == <<"GET">>
POST == <<"POST">>
ANY == <<"*">>
GETPOST == <<"GET", "POST">>

\* A universe without calls.
NoUniverse ==
    [cfgs |-> {}, patterns |-> {}, addMethods |-> {}, removeMethods |-> {}, reqMethods |-> {},
     paths |-> {}, behaviours |-> {}, handlers |-> {}, collectors |-> {}, prefixes |-> {},
     hosts |-> {}, headers |-> {}, codes |-> {}, params |-> {}]

\* Routes on a path and on a path below it, registered and removed by
\* method.
MethodsUniverse ==
    [NoUniverse EXCEPT
        !.cfgs = [allowOverwritingRoute : BOOLEAN, routingTrailingSlash : {FALSE}],
        !.patterns = {<<"/", "a">>, <<"/", "a", "/", "b">>},
        !.addMethods = {GET, POST, ANY, GETPOST},
        !.removeMethods = {GET, POST, <<>>},
        !.reqMethods = {"GET", "POST", "HEAD"},
        !.paths = {<<"/", "a">>, <<"/", "a", "/", "b">>}]

SpecMethods == InitWith(MethodsUniverse) /\ [][NextRouter]_vars

\* The same registrations and removals, with the requests for one method
\* and one path.
SpecOverwrite ==
    InitWith([MethodsUniverse EXCEPT !.reqMethods = {"GET"}, !.paths = {<<"/", "a">>}])
        /\ [][NextRouter]_vars

\* Middlewares that call next once, twice or not at all, composed and
\* invoked with a handler that succeeds or fails.
ComposeUniverse ==
    [NoUniverse EXCEPT
        !.cfgs = [allowOverwritingRoute : {FALSE}, routingTrailingSlash : {FALSE}],
        !.behaviours = MwBehaviours,
        !.handlers = {"ok", "fail"}]

SpecCompose == InitWith(ComposeUniverse) /\ [][NextCompose]_vars

\* A server whose middlewares all call next once, with collectors nested
\* two deep and routes registered in any of them.
ChainUniverse ==
    [NoUniverse EXCEPT
        !.cfgs = [allowOverwritingRoute : {FALSE}, routingTrailingSlash : {FALSE}],
        !.patterns = {<<"/", "a">>},
        !.addMethods = {GET},
        !.reqMethods = {"GET"},
        !.paths = {<<"/", "a">>},
        !.behaviours = {"pass"},
        !.collectors = {2, 3},
        !.prefixes = {<<>>}]

SpecChain == InitWith(ChainUniverse) /\ [][NextChain]_vars

\* A static, a param and a wildcard route below the same node.
PriorityUniverse ==
    [NoUniverse EXCEPT
        !.cfgs = [allowOverwritingRoute : {FALSE}, routingTrailingSlash : {FALSE}],
        !.patterns = {<<"/", "a", "/", "b">>, <<"/", "a", "/", ":", "x">>,
                      <<"/", "a", "/", "*", "y">>},
        !.addMethods = {GET},
        !.removeMethods = {GET},
        !.reqMethods = {"GET"},
        !.paths = {<<"/", "a", "/", "b">>, <<"/", "a", "/", "v">>,
                   <<"/", "a", "/", "v", "/", "w">>}]

SpecPriority == InitWith(PriorityUniverse) /\ [][NextRouter]_vars

\* Routes with several parameters and with a wildcard, and requests whose
\* segments are plain, percent-encoded, or wrongly percent-encoded.
ParamsUniverse ==
    [NoUniverse EXCEPT
        !.cfgs = [allowOverwritingRoute : {FALSE}, routingTrailingSlash : {FALSE}],
        !.patterns = {<<"/", ":", "x", "/", "b", "/", ":", "y">>, <<"/", "a", "/", "*", "y">>},
        !.addMethods = {GET},
        !.removeMethods = {GET},
        !.reqMethods = {"GET"},
        !.paths = {<<"/", "v", "/", "b", "/", "w">>, <<"/", "%", "4", "1", "/", "b", "/", "%", "4">>,
                   <<"/", "a", "/", "b">>, <<"/", "a", "/", "b", "/", "c", "/", "d">>}]

SpecParams == InitWith(ParamsUniverse) /\ [][NextRouter]_vars

\* A route with and a route without the trailing slash on the same path,
\* in a router that tolerates the difference and in one that does not.
SlashUniverse ==
    [NoUniverse EXCEPT
        !.cfgs = [allowOverwritingRoute : BOOLEAN, routingTrailingSlash : BOOLEAN],
        !.patterns = {<<"/", "x", "/">>, <<"/", "x">>},
        !.addMethods = {GET, POST},
        !.removeMethods = {GET},
        !.reqMethods = {"GET", "POST"},
        !.paths = {<<"/", "x", "/">>, <<"/", "x">>}]

SpecSlash == InitWith(SlashUniverse) /\ [][NextRouter]_vars

\* The headers of a request that name a host.
Headers(host, xForwardedHost, forwarded) ==
    [host |-> host, xForwardedHost |-> xForwardedHost, forwarded |-> forwarded]

\* Host names.
AEC == <<"a", ".", "e", ".", "c">>
FEC == <<"f", ".", "e", ".", "c">>
WildEC == <<"*", ".", "e", ".", "c">>
Localhost == <<"l">>

\* Forwarded headers: host=f.e.c, for=1;host=a.e.c, Host = "a.e.c" after a
\* space, a host= pair without a value, and for=1.
ForwardedFEC == <<"h", "o", "s", "t", "=">> \o FEC
ForwardedForAEC == <<"f", "o", "r", "=", "1", ";", "h", "o", "s", "t", "=">> \o AEC
ForwardedQuoted == <<" ", "H", "o", "s", "t", " ", "=", " ", "\"">> \o AEC \o <<"\"">>
ForwardedNoValue == <<"h", "o", "s", "t", "=">>
ForwardedFor == <<"f", "o", "r", "=", "1">>

\* A server with a router for a host and one for the hosts below a domain,
\* and requests whose host comes from either header or from the Host
\* field.
HostsUniverse ==
    [NoUniverse EXCEPT
        !.cfgs = [allowOverwritingRoute : {FALSE}, routingTrailingSlash : {FALSE}],
        !.patterns = {<<"/", "a">>},
        !.addMethods = {GET},
        !.reqMethods = {"GET"},
        !.paths = {<<"/", "a">>},
        !.hosts = {AEC, WildEC},
        !.headers = {Headers(AEC, <<>>, <<>>), Headers(FEC, <<>>, <<>>),
                     Headers(Localhost, <<>>, <<>>),
                     Headers(Localhost, AEC, ForwardedFEC),
                     Headers(FEC, <<>>, ForwardedForAEC),
                     Headers(Localhost, <<>>, ForwardedQuoted),
                     Headers(AEC, <<>>, ForwardedNoValue),
                     Headers(AEC, <<>>, ForwardedFor)}]

SpecHosts == InitWith(HostsUniverse) /\ [][NextHosts]_vars

\* Handlers that succeed, fail, or return the typed error ErrUnauthorized,
\* registered in collectors nested two deep; error handlers that write the
\* status 418.
ErrorsUniverse ==
    [NoUniverse EXCEPT
        !.cfgs = [allowOverwritingRoute : {FALSE}, routingTrailingSlash : {FALSE}],
        !.patterns = {<<"/", "a">>},
        !.addMethods = {GET},
        !.reqMethods = {"GET"},
        !.paths = {<<"/", "a">>},
        !.handlers = {"ok", "fail", "ErrUnauthorized"},
        !.collectors = {2, 3},
        !.prefixes = {<<>>},
        !.codes = {418}]

SpecErrors == InitWith(ErrorsUniverse) /\ [][NextErrors]_vars

\* Routes with and without a parameter and a trailing slash, in a router
\* that tolerates the difference of a trailing slash and in one that does
\* not, and paths built from them with no value or with one.
ReverseUniverse ==
    [NoUniverse EXCEPT
        !.cfgs = [allowOverwritingRoute : BOOLEAN, routingTrailingSlash : BOOLEAN],
        !.patterns = {<<"/", "x">>, <<"/", "x", "/">>, <<"/", "a", "/", ":", "p">>,
                      <<"/", "a", "/", ":", "p", "/">>},
        !.addMethods = {GET, POST},
        !.params = {<<>>, <<<<"v">>>>}]

SpecReverse == InitWith(ReverseUniverse) /\ [][NextReverse]_vars

\* Patterns with a wildcard segment at the end and before another segment,
\* and with a ':' inside a segment, and requests on their paths.
WildcardUniverse ==
    [NoUniverse EXCEPT
        !.cfgs = [allowOverwritingRoute : {FALSE}, routingTrailingSlash : {FALSE}],
        !.patterns = {<<"/", "a", "/", "*", "x">>, <<"/", "a", "/", "*", "x", "/", "b">>,
                      <<"/", "a", ":", "b">>},
        !.addMethods = {GET},
        !.removeMethods = {GET},
        !.reqMethods = {"GET"},
        !.paths = {<<"/", "a", "/", "v">>, <<"/", "a", "/", "v", "/", "b">>,
                   <<"/", "a", ":", "b">>}]

SpecWildcard == InitWith(WildcardUniverse) /\ [][NextRouter]_vars

\* Middlewares of the server that call next or return an error without
\* calling it, before a route of the root collector or of one below it.
GlobalUniverse ==
    [ErrorsUniverse EXCEPT !.behaviours = {"pass", "stop"}, !.handlers = {"ok", "fail"},
                           !.collectors = {2}]

SpecGlobal == InitWith(GlobalUniverse) /\ [][NextGlobal]_vars

\* Routes with parameters, requests that match them, and contexts taken
\* from the pool by the application.
SpecPool == InitWith(ParamsUniverse) /\ [][NextPool]_vars

---------------------------------------------------------------------------
(* The properties. *)

\* The ids of the middlewares of a list.
Ids(mws) == [i \in 1..Len(mws) |-> mws[i].id]

\* What the layers and the handler h write to the trace when every layer
\* calls next once: the layers enter in order, h runs, the layers leave in
\* reverse order.
Onion(layers, h) ==
    [i \in 1..Len(layers) |-> <<"in", layers[i]>>]
        \o <<<<"h", h>>>>
        \o [i \in 1..Len(layers) |-> <<"out", layers[Len(layers) + 1 - i]>>]

RECURSIVE RootDown(_)
\* The collectors from the root collector down to collector c.
RootDown(c) == IF c = 0 THEN <<>> ELSE RootDown(collectors[c].parent) \o <<c>>

\* The layers of the chain of a route: the server's middlewares, the
\* router's, those of the route's collectors from the root down, and the
\* route's own.
ChainLayers(route) ==
    Ids(middleware) \o Ids(routerMiddleware)
        \o Concat([k \in 1..Len(RootDown(route.collector)) |->
                        Ids(collectors[RootDown(route.collector)[k]].middleware)])
        \o Ids(route.middleware)

\* C1: a request that matches a route runs the server's middlewares, then
\* the router's, then those of the route's collectors from the root
\* collector down to the route's own, then the route's middlewares, then
\* the handler, each list in registration order, and the post-next parts
\* in the reverse order.
C1_ChainOrder ==
    (last.op = "ServeHTTP" /\ last.match.type = "Found")
        => last.trace = Onion(ChainLayers(routeOf(routes, last.match.routeId)),
                              last.match.routeId)

\* A request was served by a route two collectors below the root, with
\* middlewares on the server (two), the router, both collectors and the
\* route.
C1_Witness ==
    /\ last.op = "ServeHTTP"
    /\ last.match.type = "Found"
    /\ Len(middleware) = 2
    /\ Len(routerMiddleware) >= 1
    /\ Len(RootDown(routeOf(routes, last.match.routeId).collector)) = 3
    /\ \A c \in {2, 3} : Len(collectors[c].middleware) >= 1
    /\ Len(routeOf(routes, last.match.routeId).middleware) >= 1
    /\ Len(last.trace) >= 13

\* C2: the first call of the middleware that Compose returned for n >= 1
\* middlewares that each call next once writes the trace m1-enter, ...,
\* mn-enter, h, mn-exit, ..., m1-exit.
C2_ComposeOrder ==
    (/\ last.op = "Invoke"
     /\ last.first
     /\ \A i \in 1..Len(last.layers) : last.layers[i] = "pass")
        => last.trace = Onion([i \in 1..Len(last.layers) |-> <<"layer", 0, i>>], 0)

\* Three middlewares that call next once were composed and called.
C2_Witness ==
    /\ last.op = "Invoke"
    /\ last.first
    /\ last.layers = <<"pass", "pass", "pass">>
    /\ Len(last.trace) = 7

\* C3: when one layer of a chain built by Compose from one middleware or
\* several calls next twice (the other layers call it once and the handler
\* succeeds), the call returns the error of the second call of next, and
\* the handler has run once.
C3_Reentrancy ==
    (/\ last.op = "Invoke"
     /\ last.first
     /\ last.hbeh = "ok"
     /\ Cardinality({i \in 1..Len(last.layers) : last.layers[i] = "twice"}) = 1
     /\ \A i \in 1..Len(last.layers) : last.layers[i] \in {"pass", "twice"})
        => /\ last.err = "next() called multiple times"
           /\ Cardinality({j \in 1..Len(last.trace) : last.trace[j] = <<"h", 0>>}) = 1

\* The rank of a step down the tree: static before param before wildcard.
StepRank(step) == CASE step[1] = "static" -> 1 [] step[1] = "param" -> 2 [] OTHER -> 3

RECURSIVE Reach(_, _, _, _)
\* The nodes that the segments from depth on lead to from n, each as the
\* steps from the root: a static child takes the segment equal to its own,
\* the param child any segment, the wildcard child all the segments left.
Reach(n, segments, depth, via) ==
    IF depth = Len(segments) THEN (IF n.leaf.present THEN {via} ELSE {})
    ELSE UNION {Reach(n.staticChildren[i], segments, depth + 1, Append(via, <<"static", i>>)) :
                    i \in {k \in 1..Len(n.staticChildren) :
                                n.staticChildren[k].segment = segments[depth + 1]}}
         \cup (IF IsNil(n.paramChild) THEN {}
               ELSE Reach(n.paramChild, segments, depth + 1, Append(via, <<"param", 0>>)))
         \cup (IF IsNil(n.anyChild) THEN {} ELSE {Append(via, <<"any", 0>>)})

\* v is preferred to w: where they part, v takes the child of the lower rank.
Preferred(v, w) ==
    \E k \in 1..Len(v) :
        /\ k <= Len(w)
        /\ \A j \in 1..(k - 1) : v[j] = w[j]
        /\ StepRank(v[k]) < StepRank(w[k])

\* The nodes that the path of the last request leads to in the tree.
Reached == Reach(tree, split(last.path).segments, 0, <<>>)

\* C4: of the nodes that the request path leads to, Match selects the one
\* that takes, at every node on the way, a static child rather than the
\* param child and the param child rather than the wildcard child,
\* whatever the order of registration; it finds nothing only if the path
\* leads to no node.
C4_Priority ==
    last.op = "ServeHTTP"
        => IF Reached = {} THEN last.match.type = "NotFound"
           ELSE /\ last.match.type # "NotFound"
                /\ last.match.via \in Reached
                /\ \A w \in Reached \ {last.match.via} : Preferred(last.match.via, w)

\* A request for /a/b was matched with the static, the param and the
\* wildcard route all leading to it, and the static route was selected.
C4_Witness ==
    /\ last.op = "ServeHTTP"
    /\ Cardinality(Reached) = 3
    /\ last.match.type = "Found"
    /\ last.match.via[Len(last.match.via)][1] = "static"

\* C5: for every route of the registry and each of its methods (the method
\* "*" aside, which is no request method), whatever other routes were
\* added or removed, Match on
\* the route's pattern returns Found with that route.
C5_RegisteredMatches ==
    \A i \in 1..Len(routes) :
      \A k \in {j \in 1..Len(routes[i].methods) : routes[i].methods[j] # "*"} :
        /\ Match(tree, routes, cfg, routes[i].methods[k], routes[i].pattern, allocSize).type
                = "Found"
        /\ Match(tree, routes, cfg, routes[i].methods[k], routes[i].pattern, allocSize).routeId
                = routes[i].id

\* Remove has just returned for one method that had an endpoint at the
\* pattern's leaf.
RemovedOne ==
    /\ last.op = "Remove"
    /\ ~last.panic
    /\ Len(last.methods) = 1
    /\ \E i \in 1..Len(last.before) : last.before[i].method = last.methods[1]

\* C6: after Remove of a method and pattern that were added, Match for
\* them returns NotFound if the leaf had no other endpoint and
\* MethodNotAllowed if it had, and it does not fail.
C6_AddThenRemove ==
    RemovedOne
        => /\ Match(tree, routes, cfg, last.methods[1], last.pattern, allocSize).panic = "none"
           /\ Match(tree, routes, cfg, last.methods[1], last.pattern, allocSize).type
                = IF Len(last.before) > 1 THEN "MethodNotAllowed" ELSE "NotFound"

\* The leaf that the path of the last request leads to (NoLeaf if none).
LeafReached ==
    IF IsNil(match(tree, split(last.path).segments, 0, <<>>).node) THEN NoLeaf
    ELSE match(tree, split(last.path).segments, 0, <<>>).node.leaf

\* The methods of the endpoints of a leaf.
MethodsOf(leaf) == {leaf.endpoints[i].method : i \in 1..Len(leaf.endpoints)}

\* C7: a request of any method on the path of a route registered with the
\* method "*" is matched to that route and answered with status 200.
C7_AnyMethod ==
    (/\ last.op = "ServeHTTP"
     /\ \E i \in 1..Len(LeafReached.endpoints) :
            /\ LeafReached.endpoints[i].method = "*"
            /\ routeOf(routes, LeafReached.endpoints[i].routeId).id # 0)
        => /\ last.match.type = "Found"
           /\ last.status = 200

\* The methods of a set in the order of Go's strings, as a sequence.
RECURSIVE Sorted(_)
Sorted(ms) ==
    IF ms = {} THEN <<>>
    ELSE <<CHOOSE m \in ms : \A x \in ms : MethodRank(m) <= MethodRank(x)>>
         \o Sorted(ms \ {CHOOSE m \in ms : \A x \in ms : MethodRank(m) <= MethodRank(x)})

\* C8: a request whose path leads to a leaf without an endpoint for its
\* method is answered with MethodNotAllowed and status 405, and the allow
\* list and the Allow header are the methods of the leaf's endpoints, in
\* sorted order.
C8_MethodNotAllowed ==
    (/\ last.op = "ServeHTTP"
     /\ LeafReached.present
     /\ last.method \notin MethodsOf(LeafReached)
     /\ "*" \notin MethodsOf(LeafReached))
        => /\ last.match.type = "MethodNotAllowed"
           /\ last.status = 405
           /\ last.match.allow = Sorted(MethodsOf(LeafReached))
           /\ last.allowHeader = Sorted(MethodsOf(LeafReached))

\* The value that a parameter takes from the segments: a ':' parameter the
\* segment at its place without the leading '/', a '*' parameter the rest
\* of the path from its place on without the leading '/'; percent-decoded
\* unless the decoding fails.
ParamOf(patternSegment, k, path) ==
    unescaped(IF SegmentKind(patternSegment) = "any"
              THEN SliceFrom(Concat(SliceFrom(split(path).segments, k - 1)), 1)
              ELSE SliceFrom(split(path).segments[k], 1))

RECURSIVE ParamsOf(_, _, _)
\* The parameters of the pattern segments from segment k on, in order.
ParamsOf(patternSegments, k, path) ==
    IF k > Len(patternSegments) THEN <<>>
    ELSE IF SegmentKind(patternSegments[k]) = "static"
    THEN ParamsOf(patternSegments, k + 1, path)
    ELSE <<[Name |-> SliceFrom(patternSegments[k], 2),
            Value |-> ParamOf(patternSegments[k], k, path)]>>
         \o ParamsOf(patternSegments, k + 1, path)

\* C9: after a match the parameters are those of the route's pattern, in
\* the order of the pattern, each with the value its place in the request
\* path gives it.
C9_ParamValues ==
    (last.op = "ServeHTTP" /\ last.match.type = "Found")
        => last.match.params
            = ParamsOf(split(routeOf(routes, last.match.routeId).pattern).segments, 1,
                       last.path)

\* An endpoint for the method of the last request is registered with the
\* trailing slash at the leaf that the request leads to, and its route is
\* in the registry.
SlashRouteRegistered ==
    \E i \in 1..Len(LeafReached.endpoints) :
        /\ LeafReached.endpoints[i].method = last.method
        /\ LeafReached.endpoints[i].trailingSlash
        /\ routeOf(routes, LeafReached.endpoints[i].routeId).id # 0

\* C10: for a route registered with the trailing slash, a router that
\* tolerates the difference matches the request with and the request
\* without the slash; a strict router matches the request with the slash
\* and answers the one without it with MethodNotAllowed, the route's
\* method being in the allow list.
C10_TrailingSlash ==
    (last.op = "ServeHTTP" /\ SlashRouteRegistered)
        => IF cfg.routingTrailingSlash \/ split(last.path).trailing
           THEN last.match.type = "Found"
           ELSE /\ last.match.type = "MethodNotAllowed"
                /\ \E i \in 1..Len(last.match.allow) : last.match.allow[i] = last.method

\* A strict router answered the request without the slash for a route
\* registered with it.
C10_Witness ==
    /\ last.op = "ServeHTTP"
    /\ SlashRouteRegistered
    /\ ~cfg.routingTrailingSlash
    /\ ~split(last.path).trailing
    /\ last.match.type = "MethodNotAllowed"

\* The place of the first layer that returns without calling next, 0 if
\* every layer calls it.
FirstStop(layers) ==
    IF \E i \in 1..Len(layers) : layers[i] = "stop"
    THEN CHOOSE i \in 1..Len(layers) :
            layers[i] = "stop" /\ \A j \in 1..(i - 1) : layers[j] # "stop"
    ELSE 0

\* What the layers write to the trace when layer i returns without calling
\* next: the layers up to i enter, and those before i leave in reverse
\* order.
ShortCircuit(i) ==
    [k \in 1..i |-> <<"in", <<"layer", 0, k>>>>]
        \o [k \in 1..(i - 1) |-> <<"out", <<"layer", 0, i - k>>>>]

\* C20: when layer i of a chain returned by Compose returns without
\* calling next (first call of the chain), no layer after i and not the
\* terminal handler runs, the layers before i run their post-next code, and
\* the chain returns the value layer i returned.
C20_ShortCircuit ==
    (last.op = "Invoke" /\ last.first /\ FirstStop(last.layers) > 0)
        => /\ last.trace = ShortCircuit(FirstStop(last.layers))
           /\ last.err = "stopped"

\* A chain of three layers whose second layer returns without calling next
\* was called.
C20_Witness ==
    /\ last.op = "Invoke"
    /\ last.first
    /\ last.layers = <<"pass", "stop", "pass">>
    /\ Len(last.trace) = 3

\* The endpoints that the last Add found at its leaf for one of its
\* methods.
AddedOver ==
    {i \in 1..Len(last.before) :
        \E k \in 1..Len(last.methods) : last.before[i].method = last.methods[k]}

\* The path that an endpoint was registered with.
PathOf(e) == IF e.trailingSlash THEN e.pattern \o <<"/">> ELSE e.pattern

\* C15: with overwrite disallowed, an Add with a method that has an
\* endpoint of a registered route at the pattern's leaf fails as a
\* duplicate, and Match for that method and the path of that route still
\* returns that route.
C15_DuplicateAdd ==
    (last.op = "Add" /\ ~cfg.allowOverwritingRoute)
        => \A i \in AddedOver :
                last.before[i].routeId \in last.registered
                    => /\ last.panic
                       /\ Match(tree, routes, cfg, last.before[i].method,
                                PathOf(last.before[i]), allocSize).type = "Found"
                       /\ Match(tree, routes, cfg, last.before[i].method,
                                PathOf(last.before[i]), allocSize).routeId
                            = last.before[i].routeId

\* A route of two methods was added where one of them had an endpoint, and
\* the call failed.
C15_Witness ==
    /\ last.op = "Add"
    /\ ~cfg.allowOverwritingRoute
    /\ last.methods = GETPOST
    /\ Len(last.before) = 1
    /\ last.before[1].method = "POST"
    /\ last.before[1].routeId \in last.registered
    /\ last.panic

\* C16: with overwrite allowed, after an Add with a method that had an
\* endpoint at the pattern's leaf, Match for that method and the pattern
\* returns the new route, and the route of the old endpoint is not in the
\* registry.
C16_Overwrite ==
    (last.op = "Add" /\ cfg.allowOverwritingRoute)
        => \A i \in AddedOver :
                /\ ~last.panic
                /\ Match(tree, routes, cfg, last.before[i].method, last.pattern,
                         allocSize).type = "Found"
                /\ Match(tree, routes, cfg, last.before[i].method, last.pattern,
                         allocSize).routeId = last.routeId
                /\ routeOf(routes, last.before[i].routeId).id = 0

\* A route was added over the endpoint of a registered route.
C16_Witness ==
    /\ last.op = "Add"
    /\ cfg.allowOverwritingRoute
    /\ AddedOver # {}
    /\ Len(routes) >= 2
    /\ routes[Len(routes)].id = last.routeId


\* C17: AcquireContext never returns a context whose path-param slice has a
\* length other than zero or whose route info is set, be the context new or
\* released by an earlier request.
C17_AcquireReset ==
    last.op = "AcquireContext" => last.ctx.len = 0 /\ last.ctx.route = 0

\* The router of the table that the sentence on host resolution names for
\* a host: the one of the host, else the one of the wildcard that replaces
\* the host up to its first '.', else the default router; the default
\* router for a host without '.'.
RouterOfHost(host) ==
    IF IndexByte(host, ".") = -1 THEN defaultRouter
    ELSE IF host \in DOMAIN routers THEN routers[host]
    ELSE IF (<<"*">> \o SliceFrom(host, IndexByte(host, "."))) \in DOMAIN routers
    THEN routers[<<"*">> \o SliceFrom(host, IndexByte(host, "."))]
    ELSE defaultRouter

\* C11: with virtual hosts registered, a request is served by the router
\* registered under its host, else by the one registered under the
\* wildcard of its host, else by the default router; a host without '.' is
\* served by the default router.
C11_HostResolution ==
    (last.op = "ServeHTTP" /\ last.router # -1 /\ DOMAIN routers # {})
        => last.router = RouterOfHost(requestHost(last)).id

\* C18: a call of Host with a name that has a router returns that router,
\* and the name keeps it, with the routes registered through it.
C18_HostFetch ==
    (last.op = "Host" /\ last.before.id # 0)
        => last.routerId = last.before.id /\ routers[last.name] = last.before


\* The indexes of the pairs of a Forwarded header, separated by ';', that
\* have a value and the name host.
HostPairs(fwd) ==
    {k \in 1..Len(StringsSplit(fwd, ";")) :
        /\ IndexByte(StringsSplit(fwd, ";")[k], "=") # -1
        /\ ToLower(TrimSpace(SplitN2(StringsSplit(fwd, ";")[k], "=")[1]))
                = <<"h", "o", "s", "t">>}

\* The value of pair k of a Forwarded header, without the double quotes
\* and then the spaces around it.
PairValue(fwd, k) == TrimSpace(Trim(SplitN2(StringsSplit(fwd, ";")[k], "=")[2], {"\""}))

\* The value of the first host pair of a Forwarded header, empty if there
\* is no such pair.
HostToken(fwd) ==
    IF HostPairs(fwd) = {} THEN <<>>
    ELSE PairValue(fwd, CHOOSE k \in HostPairs(fwd) : \A j \in HostPairs(fwd) : k <= j)

\* The host of a request: the X-Forwarded-Host header if it is not empty,
\* else the host token of the Forwarded header if it is not empty, else
\* the Host field.
HostOf(req) ==
    IF req.xForwardedHost # <<>> THEN req.xForwardedHost
    ELSE IF HostToken(req.forwarded) # <<>> THEN HostToken(req.forwarded)
    ELSE req.host

\* The host of a request when a host token that is present is used even if
\* it is empty.
HostOfPresent(req) ==
    IF req.xForwardedHost # <<>> THEN req.xForwardedHost
    ELSE IF HostPairs(req.forwarded) # {} THEN HostToken(req.forwarded)
    ELSE req.host

\* C12: with virtual hosts registered, the router that serves a request is
\* the one of the X-Forwarded-Host header when it is not empty, else the
\* one of the value of the first host pair of the Forwarded header when
\* that value is not empty, else the one of the Host field.
C12_HostPrecedence ==
    (last.op = "ServeHTTP" /\ last.router # -1 /\ DOMAIN routers # {})
        => last.router = findRouter(routers, defaultRouter, HostOf(last)).id

\* A request with a Host field of another router, served by the router of
\* the host of its Forwarded header.
C12_Witness ==
    /\ last.op = "ServeHTTP"
    /\ last.xForwardedHost = <<>>
    /\ last.forwarded = ForwardedForAEC
    /\ last.host = FEC
    /\ DOMAIN routers = {AEC, WildEC}
    /\ last.router = routers[AEC].id

\* C12 as stated: a host token of the Forwarded header is used whenever it
\* is present.
C12_HostPresent ==
    (last.op = "ServeHTTP" /\ last.router # -1 /\ DOMAIN routers # {})
        => last.router = findRouter(routers, defaultRouter, HostOfPresent(last)).id


\* The collectors from the root down to collector c that have an error
\* handler, by their depth.
WithErrorHandler(c) ==
    {i \in 1..Len(RootDown(c)) : collectors[RootDown(c)[i]].errorHandler.id # 0}

\* The owner of the error handler that is to handle an error of a route
\* of collector c: the deepest collector with one, else the router if it
\* has one, else the server.
Nearest(c) ==
    IF WithErrorHandler(c) # {}
    THEN <<"collector", RootDown(c)[CHOOSE i \in WithErrorHandler(c) :
                                        \A j \in WithErrorHandler(c) : j <= i]>>
    ELSE IF routerErrorHandler.id # 0 THEN <<"router", 0>>
    ELSE <<"slim", 0>>

\* The error handler of an owner.
ErrorHandlerOf(by) ==
    IF by[1] = "collector" THEN collectors[by[2]].errorHandler
    ELSE IF by[1] = "router" THEN routerErrorHandler
    ELSE slimErrorHandler

C14_TypedError ==
    (last.op = "ServeHTTP" /\ last.err = "ErrUnauthorized"
        /\ ErrorHandlerOf(last.handledBy).id = 0)
        => last.status = 401


\* The route that Reverse was called with the name of, a nil route if the
\* name is of no route.
Reversed ==
    IF \A k \in 1..Len(routes) : routes[k].name # last.name THEN [id |-> 0]
    ELSE routes[CHOOSE k \in 1..Len(routes) : routes[k].name = last.name]

\* C19: the path that Reverse builds from the name of a registered route
\* and a value for each of its parameters is matched, with each method of
\* the route, to that route.
C19_ReverseMatch ==
    (last.op = "Reverse" /\ Reversed.id # 0 /\ Len(last.params) = Len(Reversed.params))
        => \A k \in 1..Len(Reversed.methods) :
              /\ Match(tree, routes, cfg, Reversed.methods[k], last.path, allocSize).type
                    = "Found"
              /\ Match(tree, routes, cfg, Reversed.methods[k], last.path, allocSize).routeId
                    = Reversed.id


\* The endpoints at the leaf of a pattern, none if the tree has no node for
\* the pattern.
EndpointsOf(pattern) ==
    IF IsNil(match(tree, split(pattern).segments, 0, <<>>).node) THEN <<>>
    ELSE match(tree, split(pattern).segments, 0, <<>>).node.leaf.endpoints

\* The endpoints found by the last Remove that it was to remove: those of a
\* listed method whose trailing slash is the one of the pattern, or any, if
\* the router tolerates the difference.
ToRemove ==
    {i \in 1..Len(last.before) :
        /\ \E k \in 1..Len(last.methods) : last.methods[k] = last.before[i].method
        /\ \/ cfg.routingTrailingSlash
           \/ last.before[i].trailingSlash = split(last.pattern).trailing}

\* C21: Remove with a list of methods does not fail and leaves at the leaf
\* of the pattern the endpoints it found there, those of the listed methods
\* aside; every route that is in the registry afterwards is still matched
\* on its pattern with each of its methods.
C21_RemoveExactly ==
    (last.op = "Remove" /\ Len(last.methods) > 0)
        => /\ ~last.panic
           /\ {EndpointsOf(last.pattern)[i] : i \in 1..Len(EndpointsOf(last.pattern))}
                = {last.before[i] : i \in (1..Len(last.before)) \ ToRemove}
           /\ \A i \in 1..Len(routes) :
                \A k \in {j \in 1..Len(routes[i].methods) : routes[i].methods[j] # "*"} :
                    Match(tree, routes, cfg, routes[i].methods[k], routes[i].pattern,
                          allocSize).routeId = routes[i].id


\* The children of a node: the static ones, the param one, the wildcard
\* one.
ChildrenOf(n) ==
    n.staticChildren \o (IF IsNil(n.paramChild) THEN <<>> ELSE <<n.paramChild>>)
                     \o (IF IsNil(n.anyChild) THEN <<>> ELSE <<n.anyChild>>)

RECURSIVE SumLeafCount(_, _)
\* The sum of leafCount over the nodes of a list, from node k on.
SumLeafCount(ns, k) == IF k > Len(ns) THEN 0 ELSE ns[k].leafCount + SumLeafCount(ns, k + 1)

RECURSIVE LeafCounted(_)
\* leafCount of n and of every node below it is what the leaves below
\* make it, and no node below n has the leafCount 0.
LeafCounted(n) ==
    /\ n.leafCount = (IF n.leaf.present THEN 1 ELSE 0) + SumLeafCount(ChildrenOf(n), 1)
    /\ \A k \in 1..Len(ChildrenOf(n)) :
            ChildrenOf(n)[k].leafCount # 0 /\ LeafCounted(ChildrenOf(n)[k])

\* C22: after any calls of Add and Remove that returned, leafCount of every
\* node of the tree is 1 for its leaf, if it has one, plus the sum over its
\* children, and no linked node has the leafCount 0.
C22_LeafCount == (last.op \in {"Add", "Remove"} /\ ~last.panic) => LeafCounted(tree)


\* C23: a request whose path leads to a leaf does not fail for lack of
\* space in the path-param slice of its context, whenever the context was
\* created, and after Match the slice has the length paramsCount of the
\* leaf.
C23_ParamSpace ==
    (last.op = "ServeHTTP" /\ LeafReached.present)
        => /\ last.panic # "slice bounds out of range"
           /\ last.panic = "none" => Len(last.match.params) = LeafReached.paramsCount


RECURSIVE WildcardsTerminal(_)
\* No wildcard node at or below n has children.
WildcardsTerminal(n) ==
    /\ IsNil(n.anyChild) \/ ChildrenOf(n.anyChild) = <<>>
    /\ \A k \in 1..Len(ChildrenOf(n)) : WildcardsTerminal(ChildrenOf(n)[k])

\* The segments of the pattern of the last Add have a wildcard segment
\* that is not the last one.
WildcardNotLast ==
    \E k \in 1..(Len(split(last.pattern).segments) - 1) :
        SegmentKind(split(last.pattern).segments[k]) = "any"

\* C24: an Add of a pattern with a wildcard segment before another segment
\* fails, and no wildcard node of the tree has children.
C24_WildcardTerminal ==
    /\ (last.op = "Add" /\ WildcardNotLast) => last.panic
    /\ WildcardsTerminal(tree)


\* C25: when a middleware of the server returns an error without calling
\* next, the error handler of the server handles the error, whatever error
\* handlers the router and the collectors have, and no route handler runs.
C25_GlobalMiddlewareError ==
    (last.op = "ServeHTTP" /\ \E k \in 1..Len(middleware) : middleware[k].beh = "stop")
        => /\ last.err = "stopped"
           /\ last.handledBy = <<"slim", 0>>
           /\ slimErrorHandler.id # 0 => last.status = slimErrorHandler.code
           /\ \A j \in 1..Len(last.trace) : last.trace[j][1] # "h"

\* A request on the path of a registered route was stopped by the second
\* middleware of the server, the root collector, the router and the server
\* having error handlers.
C25_Witness ==
    /\ last.op = "ServeHTTP"
    /\ Len(middleware) = 2
    /\ middleware[1].beh = "pass"
    /\ middleware[2].beh = "stop"
    /\ Len(routes) = 1
    /\ collectors[1].errorHandler.id # 0
    /\ routerErrorHandler.id # 0
    /\ slimErrorHandler.id # 0
    /\ last.handledBy = <<"slim", 0>>
    /\ last.status = 418


\* The context of the last request as the call left it.
ContextLeft ==
    [cap |-> last.cap, len |-> Len(last.match.params), route |-> last.match.routeId]

\* C26: every call of ServeHTTP gives the context it took back to the pool.
C26_Released == last.op = "ServeHTTP" => ContextLeft \in pool


\* The last request is for the pattern of a registered route for its
\* method, a pattern of segments that are all literals.
LiteralRouteRequested ==
    /\ last.op = "ServeHTTP"
    /\ \A k \in 1..Len(split(last.path).segments) :
            SegmentKind(split(last.path).segments[k]) = "static"
    /\ \E i \in 1..Len(routes) :
            /\ routes[i].pattern = last.path
            /\ \E k \in 1..Len(routes[i].methods) : routes[i].methods[k] = last.method
            /\ Len(LeafReached.endpoints) = 1
            /\ LeafReached.endpoints[1].routeId = routes[i].id

\* C27: a request for the pattern of a registered route whose segments are
\* literals, a ':' or '*' after the second byte of a segment being a
\* literal byte, is matched to the route, without path parameters.
C27_LiteralSegment ==
    LiteralRouteRequested
        => /\ last.panic = "none"
           /\ last.match.type = "Found"
           /\ last.match.params = <<>>


\* C28: a call of the middleware that Compose returned for two middlewares
\* or more that was called before runs the whole chain and the handler as
\* the first call did, and returns what the handler returns.
C28_ComposeReusable ==
    (/\ last.op = "Invoke"
     /\ ~last.first
     /\ Len(last.layers) >= 2
     /\ \A i \in 1..Len(last.layers) : last.layers[i] = "pass")
        => /\ last.err # "next() called multiple times"
           /\ last.trace = Onion([i \in 1..Len(last.layers) |-> <<"layer", 0, i>>], 0)


RECURSIVE EndpointsRegistered(_)
\* Every endpoint at or below the node n has a route id of the registry.
EndpointsRegistered(n) ==
    /\ \A i \in 1..Len(n.leaf.endpoints) : routeOf(routes, n.leaf.endpoints[i].routeId).id # 0
    /\ \A k \in 1..Len(ChildrenOf(n)) : EndpointsRegistered(ChildrenOf(n)[k])

\* C29: after a call of Add or Remove that returned, every endpoint of the
\* tree has the id of a route of the registry, and no request fails for a
\* route that is not found.
C29_EndpointsRegistered ==
    /\ (last.op \in {"Add", "Remove"} /\ ~last.panic) => EndpointsRegistered(tree)
    /\ last.op = "ServeHTTP" => last.panic # "route not found"


\* C30: an Add that fails as a duplicate leaves at the leaf of its pattern
\* the endpoints that it found there, in their order, and every route that
\* was in the registry is still matched on its pattern.
C30_FailedAddUnchanged ==
    (last.op = "Add" /\ last.panic)
        => /\ EndpointsOf(last.pattern) = last.before
           /\ \A i \in 1..Len(routes) :
                \A k \in {j \in 1..Len(routes[i].methods) : routes[i].methods[j] # "*"} :
                    Match(tree, routes, cfg, routes[i].methods[k], routes[i].pattern,
                          allocSize).type = "Found"

=============================================================================
